---- MODULE Spec2Model ----
(***************************************************************************)
(* A model of genji's DML orchestration (UPDATE / INSERT / DELETE compiled *)
(* to operator streams over a table and its indexes) and of the Tree       *)
(* range iteration over an ordered byte-level key-value store.             *)
(***************************************************************************)
EXTENDS Integers, Sequences, FiniteSets, TLC

(***************************************************************************)
(* Values, rows, catalog                                                   *)
(***************************************************************************)

\* the NULL value (types.NullValue); a missing field reads as NULL
Null == 0

\* largest integer stored in a column
MaxVal == 2

Vals == 1..MaxVal

NVals == {Null} \cup Vals

\* a row object of table "test": CREATE TABLE test (a int, b int, ...)
Rows == [a : NVals, b : NVals]

\* the primary keys a table is created with: PRIMARY KEY(a) or PRIMARY KEY(a, b)
PKChoices == {<<"a">>, <<"a", "b">>}

\* Catalog.GetIndexInfo: idx_a is a plain index on a, idx_b a UNIQUE index on b
GetIndexInfo(name) ==
    IF name = "idx_a" THEN [paths |-> <<"a">>, unique |-> FALSE]
    ELSE [paths |-> <<"b">>, unique |-> TRUE]

AllIndexNames == {"idx_a", "idx_b"}

\* Catalog.ListIndexes results a table can have (a deterministic order)
IndexChoices == {<<>>, <<"idx_a", "idx_b">>}

VARIABLES
    pkPaths,      \* catalog: ti.GetPrimaryKey().Paths of table "test"
    indexNames,   \* catalog: ListIndexes("test")
    tbl,          \* table namespace: primary key -> row object
    idx,          \* index namespaces: index name -> set of <<index key, primary key>>
    pc,           \* "idle" | "prepared" | "done"
    cur,          \* the statement being prepared / run
    plan,         \* the operator stream Prepare produced
    res,          \* outcome of the statement
    dirty,        \* a failed statement's partial writes were kept
    freed,        \* keys the last statement, a primary-key UPDATE, moved rows away from
    pre           \* table, indexes and freed as the current statement found them

dmlVars == <<pkPaths, indexNames, tbl, idx, pc, cur, plan, res, dirty, freed, pre>>

VARIABLES
    transient,    \* the tree is a transient tree (TransientStore set, no Namespace)
    store,        \* the byte store under the tree: stored key bytes -> stored value bytes
    tret,         \* the last Tree call and what it returned
    tpre,         \* the store as the last Tree call found it
    puts,         \* key -> document of its last Put, for the keys not deleted since
    document      \* the Document the last Get returned, until the caller lets go of it

treeVars == <<transient, store, tret, tpre, puts, document>>

VARIABLES
    ast,          \* the statement the parser produced for the last query
    stream        \* the stream of the statement Prepare made of it

compVars == <<ast, stream>>

VARIABLES
    catalog,      \* tables, indexes and sequences of the catalog, as the transaction sees them
    dret          \* the last DROP statement, the catalog it found and what Run returned

dropVars == <<catalog, dret>>

VARIABLES
    sqlFile,      \* the test declarations of a .sql file, in order
    outcomes,     \* what running the SQL of each declared test gives
    ran           \* the tests TestSQL ran for a suite, in order, and whether each passed

dslVars == <<sqlFile, outcomes, ran>>

VARIABLES
    records,      \* the records of a table, by rowid: the integer of the indexed field
    qret,         \* the last matcher call and what it returned
    pipe,         \* the last stream iterated: source, Map and Filter expressions, rows emitted
    vt,           \* the last value type asked and the answer
    parsed        \* the last test file parsed for its suites, and its testSuite

extVars == <<records, qret, pipe, vt, parsed>>

\* the state of what runs beside the DML statements and the Tree
auxVars == <<compVars, dropVars, dslVars, extVars>>

(***************************************************************************)
(* Expressions                                                             *)
(***************************************************************************)

Lit(v) == [t |-> "lit", c |-> "", v |-> v]

Col(c) == [t |-> "col", c |-> c, v |-> Null]

EqExpr(c, v) == [t |-> "eq", c |-> c, v |-> v]

FalseExpr == [t |-> "false", c |-> "", v |-> Null]

NoExpr == [t |-> "none", c |-> "", v |-> Null]

\* value of a SET expression in the row env
Eval(e, row) == IF e.t = "col" THEN row[e.c] ELSE e.v

\* a WHERE expression is truthy; NULL = v is NULL, which is not truthy
Truthy(e, row) ==
    IF e.t = "eq" THEN row[e.c] # Null /\ row[e.c] = e.v
    ELSE FALSE

(***************************************************************************)
(* Keys                                                                    *)
(***************************************************************************)

NoKey == <<>>

\* primary key of a row: the values at the primary-key paths
PK(row) == [i \in 1..Len(pkPaths) |-> row[pkPaths[i]]]

\* index key of a row: the values at the index paths
IKey(name, row) ==
    [i \in 1..Len(GetIndexInfo(name).paths) |-> row[GetIndexInfo(name).paths[i]]]

\* lexicographic order of two keys of the same length
KeyLess(k1, k2) ==
    \E i \in 1..Len(k1) :
        /\ i <= Len(k2)
        /\ k1[i] < k2[i]
        /\ \A j \in 1..(i - 1) : k1[j] = k2[j]

MinKey(ks) == CHOOSE k \in ks : \A o \in ks : o = k \/ KeyLess(k, o)

\* textual form of a path list: [a] or [a, b]
PathsString(paths) ==
    IF Len(paths) = 1 THEN "[" \o paths[1] \o "]"
    ELSE "[" \o paths[1] \o ", " \o paths[2] \o "]"

(***************************************************************************)
(* Statements                                                              *)
(***************************************************************************)

\* UpdateSetPair{Path, E}
SetPair(p, e) == [path |-> p, e |-> e]

\* expressions a SET pair assigns: a literal, or the column a
SetExprs == {Lit(v) : v \in Vals} \cup {Col("a")}

SetPairsOf(p) == {SetPair(p, e) : e \in SetExprs}

\* the SET lists of the model: one pair; a pair for a then one for b; or b = a
\* first and then a pair for a
SetLists ==
    {<<x>> : x \in SetPairsOf("a") \cup SetPairsOf("b")}
        \cup {<<x, y>> : x \in SetPairsOf("a"), y \in SetPairsOf("b")}
        \cup {<<SetPair("b", Col("a")), x>> : x \in SetPairsOf("a")}

UnsetLists == {<<"a">>, <<"b">>}

\* WHERE clauses: absent, the constant false, or a = v
Wheres == {NoExpr, FalseExpr} \cup {EqExpr("a", v) : v \in Vals}

\* rows of INSERT ... VALUES: a may be NULL, which TableValidate rejects
InsertRows == [a : NVals, b : Vals]

\* VALUES lists: one row, or two rows the first of which may have a NULL a
ValuesLists ==
    {<<r>> : r \in InsertRows} \cup {<<r, s>> : r \in [a : Vals, b : Vals], s \in InsertRows}

\* ON CONFLICT clauses the model runs: none, or DO NOTHING / IGNORE
OnConflicts == {"none", "nothing"}

Stmt(kind, set, unset, where, rows, oc) ==
    [kind |-> kind, set |-> set, unset |-> unset, where |-> where,
     rows |-> rows, onConflict |-> oc]

NoStmt == Stmt("none", <<>>, <<>>, NoExpr, <<>>, "none")

UpdateStmts ==
    {Stmt("update", s, <<>>, w, <<>>, "none") : s \in SetLists, w \in Wheres}
        \cup {Stmt("update", <<>>, u, w, <<>>, "none") : u \in UnsetLists, w \in Wheres}

DeleteStmts == {Stmt("delete", <<>>, <<>>, w, <<>>, "none") : w \in Wheres}

InsertStmts ==
    {Stmt("insert", <<>>, <<>>, NoExpr, r, oc) : r \in ValuesLists, oc \in OnConflicts}

(***************************************************************************)
(* Operators of a stream                                                   *)
(***************************************************************************)

Op(op, name, e) == [op |-> op, name |-> name, e |-> e]

RECURSIVE PathSets(_, _)
\* one path.Set per SET pair, in statement order
PathSets(pairs, i) ==
    IF i > Len(pairs) THEN <<>>
    ELSE <<Op("PathSet", pairs[i].path, pairs[i].e)>> \o PathSets(pairs, i + 1)

RECURSIVE PathUnsets(_, _)
\* one path.Unset per UNSET name, in statement order
PathUnsets(names, i) ==
    IF i > Len(names) THEN <<>>
    ELSE <<Op("PathUnset", names[i], NoExpr)>> \o PathUnsets(names, i + 1)

RECURSIVE IndexDeletes(_, _)
\* index.Delete for every index of the table
IndexDeletes(names, i) ==
    IF i > Len(names) THEN <<>>
    ELSE <<Op("IndexDelete", names[i], NoExpr)>> \o IndexDeletes(names, i + 1)

RECURSIVE IndexInserts(_, _)
\* for each index: index.Validate if it is unique, then index.Insert
IndexInserts(names, i) ==
    IF i > Len(names) THEN <<>>
    ELSE (IF GetIndexInfo(names[i]).unique
          THEN <<Op("IndexValidate", names[i], NoExpr)>> ELSE <<>>)
         \o <<Op("IndexInsert", names[i], NoExpr)>>
         \o IndexInserts(names, i + 1)

\* a primary key taken as modified only when a literal is assigned to it
PkModifiedByLiteral(pairs) ==
    \E i \in 1..Len(pairs) : \E j \in 1..Len(pkPaths) :
        pkPaths[j] = pairs[i].path /\ pairs[i].e.t = "lit"

\* some SET pair's path equals a primary-key path
PkModified(pairs) ==
    \E i \in 1..Len(pairs) : \E j \in 1..Len(pkPaths) : pkPaths[j] = pairs[i].path

\* some UNSET name is a primary-key path
UnsetsPk(names) ==
    \E i \in 1..Len(names) : \E j \in 1..Len(pkPaths) : pkPaths[j] = names[i]

\* the table write of UPDATE: TableDelete then TableInsert if the primary key
\* is modified, TableReplace otherwise
UpdateTableWrite(pkModified) ==
    IF pkModified
    THEN <<Op("TableDelete", "test", NoExpr), Op("TableInsert", "test", NoExpr)>>
    ELSE <<Op("TableReplace", "test", NoExpr)>>

\* the stream of UPDATE from its parts: the optional Filter, the IndexDelete
\* operators and the table write
UpdateStream(stmt, filter, indexDeletes, tableWrite) ==
    <<Op("SeqScan", "test", NoExpr)>>
        \o filter
        \o (IF stmt.set # <<>> THEN PathSets(stmt.set, 1) ELSE PathUnsets(stmt.unset, 1))
        \o <<Op("TableValidate", "test", NoExpr)>>
        \o indexDeletes
        \o tableWrite
        \o IndexInserts(indexNames, 1)
        \o <<Op("Discard", "", NoExpr)>>

\* rows.Filter(stmt.WhereExpr) if the statement has a WHERE clause
UpdateFilter(stmt) ==
    IF stmt.where.t # "none" THEN <<Op("Filter", "", stmt.where)>> ELSE <<>>

UnsetError == "cannot unset primary key path"

\* UpdatePrepare that deletes the index entries after the table write
UpdatePrepareIndexDeleteLate(stmt) ==
    IF stmt.set = <<>> /\ UnsetsPk(stmt.unset)
    THEN [err |-> UnsetError, ops |-> <<>>]
    ELSE [err |-> "",
          ops |-> UpdateStream(stmt, UpdateFilter(stmt), <<>>,
                               UpdateTableWrite(PkModified(stmt.set))
                                   \o IndexDeletes(indexNames, 1))]

\* UpdatePrepare without the IndexDelete operators
UpdatePrepareNoIndexDelete(stmt) ==
    IF stmt.set = <<>> /\ UnsetsPk(stmt.unset)
    THEN [err |-> UnsetError, ops |-> <<>>]
    ELSE [err |-> "",
          ops |-> UpdateStream(stmt, UpdateFilter(stmt), <<>>,
                               UpdateTableWrite(PkModified(stmt.set)))]

\* UpdatePrepare that never takes the delete-then-insert path
UpdatePrepareAlwaysReplace(stmt) ==
    IF stmt.set = <<>> /\ UnsetsPk(stmt.unset)
    THEN [err |-> UnsetError, ops |-> <<>>]
    ELSE [err |-> "",
          ops |-> UpdateStream(stmt, UpdateFilter(stmt), IndexDeletes(indexNames, 1),
                               UpdateTableWrite(FALSE))]

\* UpdatePrepare that inserts the row under its new key and leaves the old row
UpdatePrepareNoTableDelete(stmt) ==
    IF stmt.set = <<>> /\ UnsetsPk(stmt.unset)
    THEN [err |-> UnsetError, ops |-> <<>>]
    ELSE [err |-> "",
          ops |-> UpdateStream(stmt, UpdateFilter(stmt), IndexDeletes(indexNames, 1),
                               IF PkModified(stmt.set)
                               THEN <<Op("TableInsert", "test", NoExpr)>>
                               ELSE UpdateTableWrite(FALSE))]

\* UpdatePrepare that looks for a modified primary key in the first SET pair only
UpdatePrepareFirstPairOnly(stmt) ==
    IF stmt.set = <<>> /\ UnsetsPk(stmt.unset)
    THEN [err |-> UnsetError, ops |-> <<>>]
    ELSE [err |-> "",
          ops |-> UpdateStream(stmt, UpdateFilter(stmt), IndexDeletes(indexNames, 1),
                               UpdateTableWrite(stmt.set # <<>>
                                                /\ PkModified(<<stmt.set[1]>>)))]

\* UpdatePrepare that checks the first primary-key path only before an UNSET
UpdatePrepareUnsetFirstPath(stmt) ==
    IF stmt.set = <<>> /\ \E i \in 1..Len(stmt.unset) : stmt.unset[i] = pkPaths[1]
    THEN [err |-> UnsetError, ops |-> <<>>]
    ELSE [err |-> "",
          ops |-> UpdateStream(stmt, UpdateFilter(stmt), IndexDeletes(indexNames, 1),
                               UpdateTableWrite(PkModified(stmt.set)))]

\* UpdatePrepare that drops the WHERE clause
UpdatePrepareNoFilter(stmt) ==
    IF stmt.set = <<>> /\ UnsetsPk(stmt.unset)
    THEN [err |-> UnsetError, ops |-> <<>>]
    ELSE [err |-> "",
          ops |-> UpdateStream(stmt, <<>>, IndexDeletes(indexNames, 1),
                               UpdateTableWrite(PkModified(stmt.set)))]

\* UpdateStmt.Prepare: the stream, or the compile error
UpdatePrepare(stmt) ==
    IF stmt.set = <<>> /\ UnsetsPk(stmt.unset)
    THEN [err |-> UnsetError, ops |-> <<>>]
    ELSE [err |-> "",
          ops |-> UpdateStream(stmt, UpdateFilter(stmt), IndexDeletes(indexNames, 1),
                               UpdateTableWrite(PkModified(stmt.set)))]

\* the operator of an optional clause: none if the clause is absent
Optional(op, e) == IF e.t # "none" THEN <<Op(op, "", e)>> ELSE <<>>

\* a stream of DELETE that takes the LIMIT before it skips the OFFSET
DeleteStreamTakeFirst(whereExpr, orderBy, offsetExpr, limitExpr) ==
    <<Op("SeqScan", "test", NoExpr)>>
        \o Optional("Filter", whereExpr)
        \o Optional("TempTreeSort", orderBy)
        \o Optional("Take", limitExpr)
        \o Optional("Skip", offsetExpr)
        \o <<Op("TableDelete", "test", NoExpr)>>

\* the stream of DELETE: SeqScan(T), Filter if WHERE is present, TempTreeSort
\* if ORDER BY is, Skip if OFFSET is, Take if LIMIT is, TableDelete(T)
DeleteStream(whereExpr, orderBy, offsetExpr, limitExpr) ==
    <<Op("SeqScan", "test", NoExpr)>>
        \o Optional("Filter", whereExpr)
        \o Optional("TempTreeSort", orderBy)
        \o Optional("Skip", offsetExpr)
        \o Optional("Take", limitExpr)
        \o <<Op("TableDelete", "test", NoExpr)>>

\* DELETE of the table's rows the WHERE clause selects
DeletePrepare(stmt) ==
    [err |-> "", ops |-> DeleteStream(stmt.where, NoExpr, NoExpr, NoExpr)]

\* the OnConflict operator of an ON CONFLICT clause: OnConflict(nil) for
\* DO NOTHING / IGNORE, OnConflict(TableReplace(T)) for DO REPLACE / REPLACE
OnConflictOp(stmt) ==
    IF stmt.onConflict = "nothing" THEN <<Op("OnConflict", "nil", NoExpr)>>
    ELSE IF stmt.onConflict = "replace" THEN <<Op("OnConflict", "TableReplace", NoExpr)>>
    ELSE <<>>

\* InsertPrepare with OnConflict in front of TableValidate
InsertPrepareOnConflictFirst(stmt) ==
    [err |-> "",
     ops |-> <<Op("Emit", "", NoExpr)>>
             \o OnConflictOp(stmt)
             \o <<Op("TableValidate", "test", NoExpr)>>
             \o <<Op("TableInsert", "test", NoExpr)>>
             \o IndexInserts(indexNames, 1)
             \o <<Op("Discard", "", NoExpr)>>]

\* InsertPrepare with OnConflict behind TableInsert
InsertPrepareOnConflictLate(stmt) ==
    [err |-> "",
     ops |-> <<Op("Emit", "", NoExpr)>>
             \o <<Op("TableValidate", "test", NoExpr)>>
             \o <<Op("TableInsert", "test", NoExpr)>>
             \o OnConflictOp(stmt)
             \o IndexInserts(indexNames, 1)
             \o <<Op("Discard", "", NoExpr)>>]

\* textual form of a list of expressions: a or a, b
ExprsString(exprs) ==
    IF Len(exprs) = 1 THEN exprs[1] ELSE exprs[1] \o ", " \o exprs[2]

\* the row source of INSERT: Emit of the VALUES, or the stream of the SELECT,
\* a scan of foo with a Project if the SELECT names columns
InsertSource(stmt) ==
    IF stmt.selectStmt = <<>> THEN <<Op("Emit", "", NoExpr)>>
    ELSE <<Op("SeqScan", "foo", NoExpr)>>
             \o (IF stmt.selectStmt # <<"*">>
                 THEN <<Op("Project", ExprsString(stmt.selectStmt), NoExpr)>> ELSE <<>>)

\* PathsRename if target columns are named and the source is a SELECT
InsertRename(stmt) ==
    IF stmt.selectStmt # <<>> /\ stmt.fields # <<>>
    THEN <<Op("PathsRename", ExprsString(stmt.fields), NoExpr)>> ELSE <<>>

\* an end of the stream of INSERT that discards whatever RETURNING says
InsertEndingDiscard(stmt) == <<Op("Discard", "", NoExpr)>>

\* the end of the stream of INSERT: Discard without RETURNING, Project of the
\* returning expressions with it, and nothing when RETURNING is * alone
InsertEnding(stmt) ==
    IF stmt.returning = <<>> THEN <<Op("Discard", "", NoExpr)>>
    ELSE IF stmt.returning = <<"*">> THEN <<>>
    ELSE <<Op("Project", ExprsString(stmt.returning), NoExpr)>>

\* a stream of INSERT with OnConflict in front of TableValidate
InsertStreamOnConflictFirst(stmt, indexInserts) ==
    InsertSource(stmt)
        \o InsertRename(stmt)
        \o OnConflictOp(stmt)
        \o <<Op("TableValidate", "test", NoExpr)>>
        \o <<Op("TableInsert", "test", NoExpr)>>
        \o indexInserts
        \o InsertEnding(stmt)

\* the stream of INSERT: the row source, PathsRename, TableValidate,
\* OnConflict if given, TableInsert, IndexValidate (unique indexes) and
\* IndexInsert per index, and the end of the stream
InsertStream(stmt, indexInserts) ==
    InsertSource(stmt)
        \o InsertRename(stmt)
        \o <<Op("TableValidate", "test", NoExpr)>>
        \o OnConflictOp(stmt)
        \o <<Op("TableInsert", "test", NoExpr)>>
        \o indexInserts
        \o InsertEnding(stmt)

\* InsertStmt{Values, Fields, SelectStmt, OnConflict, Returning}
InsertAst(selectStmt, fields, oc, returning) ==
    [kind |-> "insert", selectStmt |-> selectStmt, fields |-> fields,
     onConflict |-> oc, returning |-> returning]

\* INSERT ... VALUES of the DML statements: no target columns, no RETURNING
InsertPrepare(stmt) ==
    [err |-> "",
     ops |-> InsertStream(InsertAst(<<>>, <<>>, stmt.onConflict, <<>>),
                          IndexInserts(indexNames, 1))]

Prepare(stmt) ==
    IF stmt.kind = "update" THEN UpdatePrepare(stmt)
    ELSE IF stmt.kind = "delete" THEN DeletePrepare(stmt)
    ELSE InsertPrepare(stmt)

(***************************************************************************)
(* Execution of a stream                                                   *)
(***************************************************************************)

PKError == "PRIMARY KEY constraint error: " \o PathsString(pkPaths)

UniqueError(name) == "UNIQUE constraint error: " \o PathsString(GetIndexInfo(name).paths)

NotNullError == "NOT NULL constraint error: " \o PathsString(pkPaths)

KeyNotFound == "key not found"

\* a ConstraintViolation raised by a uniqueness check
IsUniquenessError(err) ==
    err = PKError \/ \E n \in AllIndexNames : err = UniqueError(n)

\* the execution state of a stream: the KV state, the first error, and counters
\* of what ran: write-operator steps, rows emitted by the source, rows dropped
\* by OnConflict
ExecState(t, x) ==
    [tbl |-> t, idx |-> x, err |-> "", writes |-> 0, emitted |-> 0, swallowed |-> 0]

Fail(st, err) == [st EXCEPT !.err = err]

Wrote(st) == [st EXCEPT !.writes = @ + 1]

\* the table with key k bound to row
TablePut(t, k, row) == [x \in DOMAIN t \cup {k} |-> IF x = k THEN row ELSE t[x]]

TableRemove(t, k) == [x \in DOMAIN t \ {k} |-> t[x]]

\* the index entries of the row stored at key k, removed from every index of the table
PruneEntries(x, t, k) ==
    [n \in AllIndexNames |->
        IF \E i \in 1..Len(indexNames) : indexNames[i] = n
        THEN x[n] \ {<<IKey(n, t[k]), k>>}
        ELSE x[n]]

Out(env, st, emit) == [env |-> env, st |-> st, emit |-> emit]

\* one operator applied to one row env
Step(o, env, st) ==
    CASE o.op = "Filter" ->
            Out(env, st, Truthy(o.e, env.row))
      [] o.op = "PathSet" ->
            Out([env EXCEPT !.row[o.name] = Eval(o.e, env.row)], st, TRUE)
      [] o.op = "PathUnset" ->
            Out([env EXCEPT !.row[o.name] = Null], st, TRUE)
      [] o.op = "TableValidate" ->
            IF \E j \in 1..Len(pkPaths) : env.row[pkPaths[j]] = Null
            THEN Out(env, Fail(st, NotNullError), FALSE)
            ELSE Out(env, st, TRUE)
      [] o.op = "IndexDelete" ->
            IF env.key \notin DOMAIN st.tbl
            THEN Out(env, Fail(st, KeyNotFound), FALSE)
            ELSE Out(env,
                     Wrote([st EXCEPT !.idx[o.name] =
                                @ \ {<<IKey(o.name, st.tbl[env.key]), env.key>>}]),
                     TRUE)
      [] o.op = "TableDelete" ->
            IF env.key \notin DOMAIN st.tbl
            THEN Out(env, Fail(st, KeyNotFound), FALSE)
            ELSE Out(env,
                     Wrote([st EXCEPT !.tbl = TableRemove(st.tbl, env.key),
                                      !.idx = PruneEntries(st.idx, st.tbl, env.key)]),
                     TRUE)
      [] o.op = "TableInsert" ->
            IF PK(env.row) \in DOMAIN st.tbl
            THEN Out(env, Fail(st, PKError), FALSE)
            ELSE Out([env EXCEPT !.key = PK(env.row)],
                     Wrote([st EXCEPT !.tbl = TablePut(st.tbl, PK(env.row), env.row)]),
                     TRUE)
      [] o.op = "TableReplace" ->
            IF env.key \notin DOMAIN st.tbl
            THEN Out(env, Fail(st, KeyNotFound), FALSE)
            ELSE Out(env,
                     Wrote([st EXCEPT !.tbl = TablePut(st.tbl, env.key, env.row)]),
                     TRUE)
      [] o.op = "IndexValidate" ->
            IF \E e \in st.idx[o.name] : e[1] = IKey(o.name, env.row)
            THEN Out(env, Fail(st, UniqueError(o.name)), FALSE)
            ELSE Out(env, st, TRUE)
      [] o.op = "IndexInsert" ->
            Out(env,
                Wrote([st EXCEPT !.idx[o.name] =
                           @ \cup {<<IKey(o.name, env.row), env.key>>}]),
                TRUE)
      [] OTHER ->
            \* Discard consumes the row
            Out(env, st, FALSE)

RECURSIVE Apply(_, _, _, _)
\* the operators ops[i..] applied to one row env; OnConflict installs its
\* handler on the operator that follows it
Apply(ops, i, env, st) ==
    IF i > Len(ops) THEN st
    ELSE IF ops[i].op = "OnConflict" /\ i < Len(ops)
    THEN LET r == Step(ops[i + 1], env, st)
         IN  IF IsUniquenessError(r.st.err)
             THEN IF ops[i].name = "nil"
                  THEN [st EXCEPT !.swallowed = @ + 1]
                  ELSE Step(Op(ops[i].name, "test", NoExpr),
                            [env EXCEPT !.key = PK(env.row)], st).st
             ELSE IF r.st.err # "" \/ ~r.emit THEN r.st
             ELSE Apply(ops, i + 2, r.env, r.st)
    ELSE LET r == Step(ops[i], env, st)
         IN  IF r.st.err # "" \/ ~r.emit THEN r.st
             ELSE Apply(ops, i + 1, r.env, r.st)

Env(k, row) == [key |-> k, row |-> row]

\* how the table iterator sees writes of the running statement: a view fixed
\* when the scan starts, or the live table
ScanModes == {"snapshot", "live"}

RECURSIVE ScanFrom(_, _, _, _, _)
\* SeqScan: the rows in key order after the cursor, each sent down the stream
ScanFrom(ops, mode, snap, cursor, st) ==
    LET src == IF mode = "live" THEN st.tbl ELSE snap
        rest == {k \in DOMAIN src : cursor = NoKey \/ KeyLess(cursor, k)}
    IN  IF st.err # "" \/ rest = {} THEN st
        ELSE ScanFrom(ops, mode, snap, MinKey(rest),
                      Apply(ops, 2, Env(MinKey(rest), src[MinKey(rest)]),
                            [st EXCEPT !.emitted = @ + 1]))

RECURSIVE EmitFrom(_, _, _, _)
\* Emit: each VALUES row in order, each sent down the stream
EmitFrom(ops, rows, i, st) ==
    IF st.err # "" \/ i > Len(rows) THEN st
    ELSE EmitFrom(ops, rows, i + 1,
                  Apply(ops, 2, Env(NoKey, rows[i]), [st EXCEPT !.emitted = @ + 1]))

\* the whole stream run to its end or to its first error
RunStream(ops, stmt, mode, t, x) ==
    IF ops[1].op = "Emit"
    THEN EmitFrom(ops, stmt.rows, 1, ExecState(t, x))
    ELSE ScanFrom(ops, mode, t, NoKey, ExecState(t, x))

(***************************************************************************)
(* The statements as actions: Prepare, Run, Close                          *)
(***************************************************************************)

EmptyTable == [k \in {} |-> [a |-> Null, b |-> Null]]

EmptyIndexes == [n \in AllIndexNames |-> {}]

\* what a statement reports: its error ("" if none) and the counters of its run;
\* reused: an INSERT stored a row under a key of freed
Result(err, st, reused) ==
    [err |-> err, writes |-> st.writes, emitted |-> st.emitted,
     swallowed |-> st.swallowed, reused |-> reused]

\* what a statement found: nothing while no statement is open
Found(t, x, f) == [tbl |-> t, idx |-> x, freed |-> f]

NoPre == Found(EmptyTable, EmptyIndexes, {})

NoResult == Result("", ExecState(EmptyTable, EmptyIndexes), FALSE)

\* CREATE TABLE test (...) with one of the primary keys, CREATE INDEX for each index
DMLInit ==
    /\ pkPaths \in PKChoices
    /\ indexNames \in IndexChoices
    /\ tbl = EmptyTable
    /\ idx = EmptyIndexes
    /\ pc = "idle"
    /\ cur = NoStmt
    /\ plan = <<>>
    /\ res = NoResult
    /\ dirty = FALSE
    /\ freed = {}
    /\ pre = NoPre

\* Statement.Prepare: compile the statement to its stream; a compile error ends it
PrepareStmt(stmt) ==
    /\ pc = "idle"
    /\ cur' = stmt
    /\ plan' = Prepare(stmt).ops
    /\ IF Prepare(stmt).err # ""
       THEN /\ pc' = "done"
            /\ res' = [NoResult EXCEPT !.err = Prepare(stmt).err]
       ELSE /\ pc' = "prepared"
            /\ res' = NoResult
    /\ UNCHANGED <<pkPaths, indexNames, tbl, idx, dirty, freed>>
    /\ pre' = Found(tbl, idx, freed)
    /\ UNCHANGED <<treeVars, auxVars>>

PrepareUpdate == \E stmt \in UpdateStmts : PrepareStmt(stmt)

PrepareDelete == \E stmt \in DeleteStmts : PrepareStmt(stmt)

PrepareInsert == \E stmt \in InsertStmts : PrepareStmt(stmt)

\* some VALUES row was stored under a key of freed
Reused(stmt, t2) ==
    /\ stmt.kind = "insert"
    /\ \E i \in 1..Len(stmt.rows) :
           PK(stmt.rows[i]) \in freed /\ PK(stmt.rows[i]) \in DOMAIN t2

\* the stream runs to its end without error: its writes are the new state
RunOk ==
    /\ pc = "prepared"
    /\ \E mode \in ScanModes :
         LET r == RunStream(plan, cur, mode, tbl, idx)
         IN  /\ r.err = ""
             /\ tbl' = r.tbl
             /\ idx' = r.idx
             /\ res' = Result("", r, Reused(cur, r.tbl))
             /\ freed' = IF cur.kind = "update" /\ PkModified(cur.set)
                         THEN DOMAIN tbl \ DOMAIN r.tbl
                         ELSE {}
    /\ pc' = "done"
    /\ UNCHANGED <<pkPaths, indexNames, cur, plan, dirty, pre>>
    /\ UNCHANGED <<treeVars, auxVars>>

\* the stream stops at its first error: the transaction is rolled back, or, in
\* an explicit transaction that goes on, the writes made before the error stay
RunFail ==
    /\ pc = "prepared"
    /\ \E mode \in ScanModes, keep \in BOOLEAN :
         LET r == RunStream(plan, cur, mode, tbl, idx)
         IN  /\ r.err # ""
             /\ tbl' = (IF keep THEN r.tbl ELSE tbl)
             /\ idx' = (IF keep THEN r.idx ELSE idx)
             /\ res' = Result(r.err, r, FALSE)
             /\ dirty' = (dirty \/ (keep /\ r.writes > 0))
    /\ pc' = "done"
    /\ freed' = {}
    /\ UNCHANGED <<pkPaths, indexNames, cur, plan, pre>>
    /\ UNCHANGED <<treeVars, auxVars>>

\* Result.Close: the statement is over
Close ==
    /\ pc = "done"
    /\ pc' = "idle"
    /\ cur' = NoStmt
    /\ plan' = <<>>
    /\ res' = NoResult
    /\ UNCHANGED <<pkPaths, indexNames, tbl, idx, dirty, freed>>
    /\ pre' = NoPre
    /\ UNCHANGED <<treeVars, auxVars>>

(***************************************************************************)
(* Key encoding and the byte store                                         *)
(***************************************************************************)

\* a byte string is less than another: byte-wise, a proper prefix first
BytesLess(x, y) ==
    \E i \in 1..Len(y) :
        /\ \A j \in 1..(i - 1) : j <= Len(x) /\ x[j] = y[j]
        /\ i > Len(x) \/ x[i] < y[i]

HasPrefix(x, p) == Len(p) <= Len(x) /\ SubSeq(x, 1, Len(p)) = p

\* bytes.TrimPrefix
TrimPrefix(x, p) == IF HasPrefix(x, p) THEN SubSeq(x, Len(p) + 1, Len(x)) ELSE x

\* the largest integer, with the 8-byte payload of the encoding scaled to one byte
MaxInt64 == 127

\* type tag of an integer
Int64Value == 48

\* delimiter between the values of a key
ArrayValueDelim == 31

\* the integer as its two's-complement byte, the sign bit kept
EncodeValueUnsigned(v) == <<Int64Value, v % 256>>

\* one-byte type tag, then the integer with its sign bit flipped so that the
\* unsigned byte order is the signed order
EncodeValue(v) == <<Int64Value, (v + 128) % 256>>

RECURSIVE EncodeKeyFrom(_, _)
EncodeKeyFrom(k, i) ==
    IF i > Len(k) THEN <<>>
    ELSE (IF i > 1 THEN <<ArrayValueDelim>> ELSE <<>>)
         \o EncodeValue(k[i]) \o EncodeKeyFrom(k, i + 1)

\* the byte form of a key: its values' encodings with the delimiter in between
EncodeKey(k) == EncodeKeyFrom(k, 1)

\* id of the tree's namespace, and the namespaces below and above it
NamespaceID == 10

OtherNamespaceIDs == {NamespaceID - 1, NamespaceID + 1}

\* kv.BuildKey: the namespace prefix, then the key
BuildKey(id, key) == <<id>> \o key

\* NamespaceID.UpperBound: the first key that is not in the namespace
UpperBound(id) == <<id + 1>>

(***************************************************************************)
(* Tree                                                                    *)
(***************************************************************************)

MaxEntries == 2

MaxDoc == 2

\* the keys of an index on (a, b): a small a, b negative or the largest integer
LeadVals == 1..MaxVal

TailVals == {-1, MaxInt64}

TreeKeys == {<<a, b>> : a \in LeadVals, b \in TailVals}

\* the keys a range is bounded by: a full key or its leading value alone
BoundKeys == TreeKeys \cup {<<a>> : a \in LeadVals}

Docs == 1..MaxDoc

\* nil, as a key of a Range and as a document
Nil == <<>>

Range(min, max, exclusive) == [Min |-> min, Max |-> max, Exclusive |-> exclusive]

\* Codec.Encode of a document
CodecEncode(d) == <<1, d>>

buildKey(key) == IF ~transient THEN BuildKey(NamespaceID, key) ELSE key

buildFirstKey == buildKey(Nil)

\* the last key of a transient tree, taken for every tree
buildLastKeyTransient == <<255>>

buildLastKey == IF ~transient THEN UpperBound(NamespaceID) ELSE <<255>>

\* the start key of an inclusive range with the bytes of the exclusive one
buildStartKeyInclusiveDelim(key) == buildKey(key) \o <<ArrayValueDelim, 255>>

buildStartKeyInclusive(key) == buildKey(key)

\* the start key of an exclusive range without the bytes that follow the key
buildStartKeyExclusiveBare(key) == buildKey(key)

buildStartKeyExclusive(key) == buildKey(key) \o <<ArrayValueDelim, 255>>

\* the end key of an inclusive range without the bytes that follow the key
buildEndKeyInclusiveBare(key) == buildKey(key)

buildEndKeyInclusive(key) == buildKey(key) \o <<ArrayValueDelim, 255>>

buildEndKeyExclusive(key) == buildKey(key)

\* LowerBound of the iterator
StartOf(rng) ==
    IF ~rng.Exclusive
    THEN (IF rng.Min = Nil THEN buildFirstKey ELSE buildStartKeyInclusive(rng.Min))
    ELSE (IF rng.Min = Nil THEN buildFirstKey ELSE buildStartKeyExclusive(rng.Min))

\* UpperBound of the iterator
EndOf(rng) ==
    IF ~rng.Exclusive
    THEN (IF rng.Max = Nil THEN buildLastKey ELSE buildEndKeyInclusive(rng.Max))
    ELSE (IF rng.Max = Nil THEN buildLastKey ELSE buildEndKeyExclusive(rng.Max))

\* the stored keys an iterator with these bounds is valid on: LowerBound is
\* inclusive, UpperBound exclusive
Within(start, end) ==
    {k \in DOMAIN store : ~BytesLess(k, start) /\ BytesLess(k, end)}

\* an iterator that moves forward whatever the direction asked for
IterSeekForward(S, reverse) == CHOOSE k \in S : \A j \in S : j = k \/ BytesLess(k, j)

\* it.First / it.Next: the least key; it.Last / it.Prev: the greatest one
IterSeek(S, reverse) ==
    IF ~reverse
    THEN CHOOSE k \in S : \A j \in S : j = k \/ BytesLess(k, j)
    ELSE CHOOSE k \in S : \A j \in S : j = k \/ BytesLess(j, k)

\* no document is held
NoDocument == <<>>

\* Codec.Decode of an encoded document
CodecDecode(enc) == enc[2]

\* the Document Tree.Get returns: the stored bytes, no decoded object (0 for
\* nil); decodes counts the calls of Codec.Decode, reads lists the accesses
\* and the object each was answered from
NewDocument(encoded) ==
    [encoded |-> encoded, d |-> 0, decodes |-> 0, reads |-> <<>>]

\* a decode that does not keep the decoded object
decodeUncached(doc) ==
    [doc EXCEPT !.decodes = @ + 1]

\* Document.decode: nothing when the object is there, else Codec.Decode
decode(doc) ==
    IF doc.d # 0 THEN doc
    ELSE [doc EXCEPT !.d = CodecDecode(doc.encoded), !.decodes = @ + 1]

\* the error fn returns to stop the iteration
FnError == "fn error"

\* fn returns an error at its failAt-th call (never when failAt is 0); it reads
\* the document it is handed when the entry holds an encoded object
Fn(failAt, doc) ==
    [doc |-> IF doc.encoded[1] = 1 THEN decode(doc) ELSE doc,
     err |-> IF failAt = 1 THEN FnError ELSE ""]

\* a Document that keeps the object decoded for the entry before
NextDocumentKeepsObject(doc, encoded) == [doc EXCEPT !.encoded = encoded]

\* d.encoded = it.Value(); d.d = nil
NextDocument(doc, encoded) == [doc EXCEPT !.encoded = encoded, !.d = 0]

\* a loop that goes on after an error of fn
LoopStopsNever(err) == FALSE

\* if err != nil { return err }
LoopStops(err) == err # ""

\* the loop of IterateOnRange: fn is called with the key, the namespace prefix
\* trimmed, and the one Document of the loop set to the stored value of each key
\* the iterator is valid on, until fn returns an error; a call is recorded with
\* the stored value, the object fn saw in the document and the error it returned
RECURSIVE IterLoop(_, _, _, _)
IterLoop(S, reverse, failAt, d) ==
    IF S = {} THEN <<>>
    ELSE LET k == IterSeek(S, reverse)
             r == Fn(failAt, NextDocument(d, store[k]))
             call == [key |-> TrimPrefix(k, buildKey(Nil)), doc |-> store[k],
                      seen |-> r.doc.d, err |-> r.err]
         IN  IF LoopStops(r.err) THEN <<call>>
             ELSE <<call>> \o IterLoop(S \ {k}, reverse, failAt - 1, r.doc)

\* an IterateOnRange whose reverse walk takes the bounds of the inclusive range
IterateOnRangeReverseInclusive(rng, reverse, failAt) ==
    LET r == IF reverse THEN Range(rng.Min, rng.Max, FALSE) ELSE rng
    IN  IterLoop(Within(StartOf(r), EndOf(r)), reverse, failAt, NewDocument(Nil))

\* the calls of fn one IterateOnRange makes, in order
IterateOnRange(rng, reverse, failAt) ==
    IterLoop(Within(StartOf(rng), EndOf(rng)), reverse, failAt, NewDocument(Nil))

\* what IterateOnRange returns: the error of fn that ended the loop, or none
IterateError(calls) ==
    IF \E i \in 1..Len(calls) : calls[i].err # ""
    THEN calls[CHOOSE i \in 1..Len(calls) : calls[i].err # ""].err
    ELSE ""

Panic == "panic"

TreeResult(op, key, min, max, exclusive, reverse, calls, doc, err) ==
    [op |-> op, key |-> key, min |-> min, max |-> max, exclusive |-> exclusive,
     reverse |-> reverse, calls |-> calls, doc |-> doc, err |-> err]

NoTreeResult == TreeResult("", Nil, Nil, Nil, FALSE, FALSE, <<>>, <<>>, "")

KeyResult(op, key, doc, err) ==
    TreeResult(op, key, Nil, Nil, FALSE, FALSE, <<>>, doc, err)

\* the stored keys of the tree: those of its namespace, or all of a transient store
TreeEntries == {k \in DOMAIN store : HasPrefix(k, buildKey(Nil))}

\* the store with the value at a key put or replaced
StorePut(k, enc) == [j \in DOMAIN store \cup {k} |-> IF j = k THEN enc ELSE store[j]]

\* the store without the given keys
StoreRemove(K) == [j \in DOMAIN store \ K |-> store[j]]

\* entries of the namespaces next to the tree's in the same store
OtherEntries ==
    [k \in {BuildKey(id, EncodeKey(<<1, -1>>)) : id \in OtherNamespaceIDs} |-> <<0>>]

\* a Put that leaves the entry of a key that exists as it is
TreePutIfAbsent(key, d) ==
    LET k == buildKey(EncodeKey(key))
        enc == IF d # 0 THEN CodecEncode(d) ELSE <<0>>
    IN  /\ k \in DOMAIN store \/ Cardinality(TreeEntries) < MaxEntries
        /\ store' = IF k \in DOMAIN store THEN store ELSE StorePut(k, enc)
        /\ tret' = KeyResult("Put", key, enc, "")
        /\ UNCHANGED transient

\* Tree.Put of an encoded key (key is how the caller names it): the encoded
\* document, or the byte 0 for a nil document, is stored at the key, replacing
\* what was there
TreePutEncoded(key, encoded, d) ==
    LET k == buildKey(encoded)
        enc == IF d # 0 THEN CodecEncode(d) ELSE <<0>>
    IN  /\ k \in DOMAIN store \/ Cardinality(TreeEntries) < MaxEntries
        /\ store' = StorePut(k, enc)
        /\ tret' = KeyResult("Put", key, enc, "")
        /\ UNCHANGED transient

\* Tree.Put of a typed key
TreePut(key, d) == TreePutEncoded(key, EncodeKey(key), d)

\* a Get that hands an absent key's empty value on without an error
TreeGetNoError(key) ==
    LET k == buildKey(EncodeKey(key))
    IN  /\ tret' = IF transient THEN KeyResult("Get", key, <<>>, Panic)
                   ELSE IF k \notin DOMAIN store THEN KeyResult("Get", key, <<>>, "")
                   ELSE KeyResult("Get", key, store[k], "")
        /\ UNCHANGED <<transient, store>>

\* Tree.Get
TreeGet(key) ==
    LET k == buildKey(EncodeKey(key))
    IN  /\ tret' = IF transient THEN KeyResult("Get", key, <<>>, Panic)
                   ELSE IF k \notin DOMAIN store THEN KeyResult("Get", key, <<>>, KeyNotFound)
                   ELSE KeyResult("Get", key, store[k], "")
        /\ UNCHANGED <<transient, store>>

\* Tree.Exists: doc is <<1>> for true, <<0>> for false
TreeExists(key) ==
    LET k == buildKey(EncodeKey(key))
    IN  /\ tret' = IF transient THEN KeyResult("Exists", key, <<>>, Panic)
                   ELSE KeyResult("Exists", key, IF k \in DOMAIN store THEN <<1>> ELSE <<0>>, "")
        /\ UNCHANGED <<transient, store>>

\* a Delete that does not look for the key before it removes it
TreeDeleteNoError(key) ==
    LET k == buildKey(EncodeKey(key))
    IN  /\ tret' = IF transient THEN KeyResult("Delete", key, <<>>, Panic)
                   ELSE KeyResult("Delete", key, <<>>, "")
        /\ store' = IF ~transient THEN StoreRemove({k}) ELSE store
        /\ UNCHANGED transient

\* a Delete that goes to the store whatever the kind of the tree
TreeDeleteAnyStore(key) ==
    LET k == buildKey(EncodeKey(key))
    IN  /\ tret' = IF k \notin DOMAIN store THEN KeyResult("Delete", key, <<>>, KeyNotFound)
                   ELSE KeyResult("Delete", key, <<>>, "")
        /\ store' = StoreRemove({k})
        /\ UNCHANGED transient

\* Tree.Delete
TreeDelete(key) ==
    LET k == buildKey(EncodeKey(key))
    IN  /\ tret' = IF transient THEN KeyResult("Delete", key, <<>>, Panic)
                   ELSE IF k \notin DOMAIN store THEN KeyResult("Delete", key, <<>>, KeyNotFound)
                   ELSE KeyResult("Delete", key, <<>>, "")
        /\ store' = IF ~transient /\ k \in DOMAIN store THEN StoreRemove({k}) ELSE store
        /\ UNCHANGED transient

\* a Truncate that empties the whole store
TreeTruncateAll ==
    /\ tret' = KeyResult("Truncate", Nil, <<>>, IF transient THEN Panic ELSE "")
    /\ store' = IF transient THEN store ELSE StoreRemove(DOMAIN store)
    /\ UNCHANGED transient

\* Tree.Truncate
TreeTruncate ==
    /\ tret' = KeyResult("Truncate", Nil, <<>>, IF transient THEN Panic ELSE "")
    /\ store' = IF transient THEN store ELSE StoreRemove(TreeEntries)
    /\ UNCHANGED transient

\* Tree.IterateOnRange with a callback that returns no error
TreeIterate(min, max, exclusive, reverse, failAt) ==
    /\ tret' = LET calls == IterateOnRange(Range(EncodeKey(min), EncodeKey(max), exclusive),
                                          reverse, failAt)
               IN  TreeResult("IterateOnRange", Nil, min, max, exclusive, reverse,
                              calls, <<>>, IterateError(calls))
    /\ UNCHANGED <<transient, store>>

\* no store is remembered between two calls
NoStore == <<>>

\* no key was put
NoPuts == <<>>

\* the caller is between two calls of the tree
Called == tret.op # ""

(***************************************************************************)
(* Document                                                                *)
(***************************************************************************)

\* accesses of one document
MaxAccesses == 3

\* an access of the document: decode, then the answer of the decoded object
Access(op) ==
    /\ tret.op = "Get" /\ document # NoDocument
    /\ document.encoded[1] = 1
    /\ Len(document.reads) < MaxAccesses
    /\ document' = [decode(document) EXCEPT
                      !.reads = Append(@, [op |-> op, d |-> decode(document).d])]
    /\ UNCHANGED <<transient, store, tret, tpre, puts, dmlVars, auxVars>>

Put ==
    /\ ~Called
    /\ \E key \in TreeKeys, d \in 0..MaxDoc :
          /\ TreePut(key, d)
          /\ puts' = [x \in DOMAIN puts \cup {key} |-> IF x = key THEN d ELSE puts[x]]
    /\ tpre' = store
    /\ UNCHANGED <<document, dmlVars, auxVars>>

Get ==
    /\ ~Called
    /\ \E key \in TreeKeys : TreeGet(key)
    /\ document' = IF tret'.err = "" THEN NewDocument(tret'.doc) ELSE NoDocument
    /\ tpre' = store
    /\ UNCHANGED <<puts, dmlVars, auxVars>>

Exists ==
    /\ ~Called
    /\ \E key \in TreeKeys : TreeExists(key)
    /\ tpre' = store
    /\ UNCHANGED <<puts, document, dmlVars, auxVars>>

Delete ==
    /\ ~Called
    /\ \E key \in TreeKeys :
          /\ TreeDelete(key)
          /\ puts' = IF transient THEN puts
                     ELSE [x \in DOMAIN puts \ {key} |-> puts[x]]
    /\ tpre' = store
    /\ UNCHANGED <<document, dmlVars, auxVars>>

Truncate ==
    /\ ~Called
    /\ TreeTruncate
    /\ puts' = IF transient THEN puts ELSE NoPuts
    /\ tpre' = store
    /\ UNCHANGED <<document, dmlVars, auxVars>>

Iterate ==
    /\ ~Called
    /\ \E min \in BoundKeys \cup {Nil}, max \in BoundKeys \cup {Nil},
          exclusive \in BOOLEAN, reverse \in BOOLEAN, failAt \in 0..MaxEntries :
           TreeIterate(min, max, exclusive, reverse, failAt)
    /\ tpre' = store
    /\ UNCHANGED <<puts, document, dmlVars, auxVars>>

\* Document.Iterate
DocumentIterate == Access("Iterate")

\* Document.GetByField
DocumentGetByField == Access("GetByField")

\* Document.MarshalJSON
DocumentMarshalJSON == Access("MarshalJSON")

\* the caller has taken the result of its call and lets go of the document
Return ==
    /\ Called
    /\ tret' = NoTreeResult
    /\ tpre' = NoStore
    /\ document' = NoDocument
    /\ UNCHANGED <<transient, store, puts>>
    /\ UNCHANGED <<dmlVars, auxVars>>

\* the tree of the DML statements' table is not called through this interface
TreeIdle ==
    /\ transient = FALSE
    /\ store = OtherEntries
    /\ tret = NoTreeResult
    /\ tpre = NoStore
    /\ puts = NoPuts
    /\ document = NoDocument

\* type tags at the upper end of the byte range
HighTags == {254, 255}

\* the encoded keys a sort buffers rows under: encoded integers, and keys
\* whose first byte is a high tag
SortKeys == {EncodeKey(<<v>>) : v \in {-1, 1}} \cup {<<t, 1>> : t \in HighTags}

\* a sort buffers a row: Put of the encoded sort key into the transient tree
Buffer ==
    /\ ~Called
    /\ \E key \in SortKeys, d \in Docs :
          /\ TreePutEncoded(key, key, d)
          /\ puts' = [x \in DOMAIN puts \cup {key} |-> IF x = key THEN d ELSE puts[x]]
    /\ tpre' = store
    /\ UNCHANGED <<document, dmlVars, auxVars>>

\* a sort yields its rows: IterateOnRange over the whole transient tree
Yield ==
    /\ ~Called
    /\ \E reverse \in BOOLEAN, failAt \in 0..MaxEntries :
          TreeIterate(Nil, Nil, FALSE, reverse, failAt)
    /\ tpre' = store
    /\ UNCHANGED <<puts, document, dmlVars, auxVars>>

\* tree.NewTransient over an empty transient store
SortNew ==
    /\ transient = TRUE
    /\ store = <<>>
    /\ tret = NoTreeResult
    /\ tpre = NoStore
    /\ puts = NoPuts
    /\ document = NoDocument

\* tree.New over a namespace of a store that holds other namespaces, or
\* tree.NewTransient over an empty transient store
TreeNew ==
    /\ transient \in BOOLEAN
    /\ store = IF transient THEN <<>> ELSE OtherEntries
    /\ tret = NoTreeResult
    /\ tpre = NoStore
    /\ puts = NoPuts
    /\ document = NoDocument

\* no statement runs on the table
DMLIdle ==
    /\ pkPaths = <<"a">>
    /\ indexNames = <<>>
    /\ tbl = EmptyTable
    /\ idx = EmptyIndexes
    /\ pc = "idle"
    /\ cur = NoStmt
    /\ plan = <<>>
    /\ res = NoResult
    /\ dirty = FALSE
    /\ freed = {}
    /\ pre = NoPre


\* DeleteStmt{WhereExpr, OrderBy, OffsetExpr, LimitExpr}
DeleteAst(whereExpr, orderBy, offsetExpr, limitExpr) ==
    [kind |-> "delete", whereExpr |-> whereExpr, orderBy |-> orderBy,
     offsetExpr |-> offsetExpr, limitExpr |-> limitExpr]

NoAst == [kind |-> "none"]

\* ORDER BY clauses: absent or the column a
OrderBys == {NoExpr, Col("a")}

\* OFFSET and LIMIT clauses: absent or a literal
Counts == {NoExpr} \cup {Lit(v) : v \in NVals}

\* the DELETE statements the parser hands to Prepare
DeleteAsts ==
    {DeleteAst(w, o, k, l) : w \in Wheres, o \in OrderBys, k \in Counts, l \in Counts}

\* SELECT sources of INSERT: none (VALUES), SELECT * FROM foo, SELECT c, d FROM foo
SelectStmts == {<<>>, <<"*">>, <<"c", "d">>}

\* target columns of INSERT: none or (a, b)
FieldLists == {<<>>, <<"a", "b">>}

\* RETURNING clauses: none, *, a, or *, a
Returnings == {<<>>, <<"*">>, <<"a">>, <<"*", "a">>}

\* the INSERT statements the parser hands to Prepare
InsertAsts ==
    {InsertAst(q, f, oc, r) : q \in SelectStmts, f \in FieldLists,
                              oc \in OnConflicts \cup {"replace"}, r \in Returnings}

\* q.Prepare of a parsed DELETE
PrepareDeleteAst ==
    \E a \in DeleteAsts :
        /\ ast' = a
        /\ stream' = DeleteStream(a.whereExpr, a.orderBy, a.offsetExpr, a.limitExpr)
        /\ UNCHANGED <<dmlVars, treeVars, dropVars, dslVars, extVars>>

\* q.Prepare of a parsed INSERT
PrepareInsertAst ==
    \E a \in InsertAsts :
        /\ ast' = a
        /\ stream' = InsertStream(a, IndexInserts(indexNames, 1))
        /\ UNCHANGED <<dmlVars, treeVars, dropVars, dslVars, extVars>>

\* no query was parsed
CompIdle ==
    /\ ast = NoAst
    /\ stream = <<>>

(***************************************************************************)
(* DROP TABLE, DROP INDEX, DROP SEQUENCE                                   *)
(***************************************************************************)

\* the tables of the model: t1 has no primary key, t2 has one
TableNames == {"t1", "t2"}

\* tb.Info.PrimaryKey of a table, TRUE if it is not nil
PrimaryKey(name) == name = "t2"

\* tb.Info.RowidSequenceName of a table without primary key
RowidSequenceName(name) == name \o "_seq"

\* the index of the model, an index of t2
IndexNames == {"i1"}

\* the table an index is on
IndexOwner(name) == "t2"

\* the sequence a CREATE SEQUENCE made: it has no owner
FreeSequences == {"s1"}

\* a catalog: its tables, its indexes, and its sequences with
\* seq.Info.Owner.TableName of each
Catalog(tables, indexes, sequences) ==
    [tables |-> tables, indexes |-> indexes, sequences |-> sequences]

\* the catalog with these tables, indexes and free sequences: a table
\* without primary key comes with its rowid sequence, which it owns
CatalogOf(tables, indexes, free) ==
    Catalog(tables, indexes,
            [n \in free \cup {RowidSequenceName(t) : t \in {x \in tables : ~PrimaryKey(x)}} |->
                IF n \in free THEN "" ELSE CHOOSE t \in tables : RowidSequenceName(t) = n])

\* the catalogs a transaction can start with: an index needs its table
Catalogs ==
    {CatalogOf(ts, is, fs) : ts \in SUBSET TableNames,
                             is \in SUBSET IndexNames,
                             fs \in SUBSET FreeSequences}

NotFound == "not found"

\* an error of the catalog that is not NotFound
OtherError == "catalog error"

IsNotFoundError(err) == err = NotFound

\* what a call of the catalog returns: an error and the catalog it leaves
CatResult(err, cat) == [err |-> err, cat |-> cat]

\* Catalog.GetTable
GetTable(cat, name) ==
    CatResult(IF name \in cat.tables THEN "" ELSE NotFound, cat)

\* Catalog.GetSequence
GetSequence(cat, name) ==
    CatResult(IF name \in DOMAIN cat.sequences THEN "" ELSE NotFound, cat)

\* CatalogWriter.DropTable: the table goes, with its indexes
CatDropTable(cat, name) ==
    IF name \notin cat.tables THEN CatResult(NotFound, cat)
    ELSE CatResult("", [cat EXCEPT !.tables = @ \ {name},
                                   !.indexes = {i \in @ : IndexOwner(i) # name}])

\* CatalogWriter.DropIndex
CatDropIndex(cat, name) ==
    IF name \notin cat.indexes THEN CatResult(NotFound, cat)
    ELSE CatResult("", [cat EXCEPT !.indexes = @ \ {name}])

\* CatalogWriter.DropSequence
CatDropSequence(cat, name) ==
    IF name \notin DOMAIN cat.sequences THEN CatResult(NotFound, cat)
    ELSE CatResult("", [cat EXCEPT !.sequences =
                                       [n \in DOMAIN @ \ {name} |-> @[n]]])

\* a call of the catalog that fails for a reason of its own when faulty
Faulty(faulty, r, cat) == IF faulty THEN CatResult(OtherError, cat) ELSE r

\* what Run returns: the error, the catalog it leaves, the catalog calls made
RunResult(err, cat, calls) == [err |-> err, cat |-> cat, calls |-> calls]

MissingTableName == "missing table name"

MissingIndexName == "missing index name"

OwnedSequenceError(name, owner) ==
    "cannot drop sequence " \o name \o " because constraint of table "
        \o owner \o " requires it"

\* a DropTableStmt.Run that takes an empty name to the catalog
DropTableRunNoNameCheck(cat, name, ifExists, failAt) ==
    LET g == Faulty(failAt = 1, GetTable(cat, name), cat)
    IN  IF g.err # ""
        THEN RunResult(IF IsNotFoundError(g.err) /\ ifExists THEN "" ELSE g.err,
                       cat, <<"GetTable">>)
        ELSE LET d == Faulty(failAt = 2, CatDropTable(cat, name), cat)
             IN  RunResult(d.err, d.cat, <<"GetTable", "DropTable">>)

\* a DropTableStmt.Run that leaves the rowid sequence in the catalog
DropTableRunKeepsSequence(cat, name, ifExists, failAt) ==
    IF name = "" THEN RunResult(MissingTableName, cat, <<>>)
    ELSE LET g == Faulty(failAt = 1, GetTable(cat, name), cat)
         IN  IF g.err # ""
             THEN RunResult(IF IsNotFoundError(g.err) /\ ifExists THEN "" ELSE g.err,
                            cat, <<"GetTable">>)
             ELSE LET d == Faulty(failAt = 2, CatDropTable(cat, name), cat)
                  IN  RunResult(d.err, d.cat, <<"GetTable", "DropTable">>)

\* DropTableStmt.Run; failAt is the catalog call that fails for a reason of
\* its own, 0 if none does
DropTableRun(cat, name, ifExists, failAt) ==
    IF name = "" THEN RunResult(MissingTableName, cat, <<>>)
    ELSE LET g == Faulty(failAt = 1, GetTable(cat, name), cat)
         IN  IF g.err # ""
             THEN RunResult(IF IsNotFoundError(g.err) /\ ifExists THEN "" ELSE g.err,
                            cat, <<"GetTable">>)
             ELSE LET d == Faulty(failAt = 2, CatDropTable(cat, name), cat)
                  IN  IF d.err # ""
                      THEN RunResult(d.err, d.cat, <<"GetTable", "DropTable">>)
                      ELSE IF ~PrimaryKey(name)
                      THEN LET q == Faulty(failAt = 3,
                                           CatDropSequence(d.cat, RowidSequenceName(name)),
                                           d.cat)
                           IN  RunResult(q.err, q.cat,
                                         <<"GetTable", "DropTable", "DropSequence">>)
                      ELSE RunResult("", d.cat, <<"GetTable", "DropTable">>)

\* a DropIndexStmt.Run whose IF EXISTS swallows every error
DropIndexRunSwallowsAll(cat, name, ifExists, failAt) ==
    IF name = "" THEN RunResult(MissingIndexName, cat, <<>>)
    ELSE LET d == Faulty(failAt = 1, CatDropIndex(cat, name), cat)
         IN  RunResult(IF ifExists THEN "" ELSE d.err, d.cat, <<"DropIndex">>)

\* DropIndexStmt.Run
DropIndexRun(cat, name, ifExists, failAt) ==
    IF name = "" THEN RunResult(MissingIndexName, cat, <<>>)
    ELSE LET d == Faulty(failAt = 1, CatDropIndex(cat, name), cat)
         IN  RunResult(IF IsNotFoundError(d.err) /\ ifExists THEN "" ELSE d.err,
                       d.cat, <<"DropIndex">>)

\* a DropSequenceStmt.Run that does not look at the owner of the sequence
DropSequenceRunNoOwnerCheck(cat, name, ifExists, failAt) ==
    IF name = "" THEN RunResult(MissingIndexName, cat, <<>>)
    ELSE LET g == Faulty(failAt = 1, GetSequence(cat, name), cat)
         IN  IF g.err # ""
             THEN RunResult(IF IsNotFoundError(g.err) /\ ifExists THEN "" ELSE g.err,
                            cat, <<"GetSequence">>)
             ELSE LET d == Faulty(failAt = 2, CatDropSequence(cat, name), cat)
                  IN  RunResult(IF IsNotFoundError(d.err) /\ ifExists THEN "" ELSE d.err,
                                d.cat, <<"GetSequence", "DropSequence">>)

\* DropSequenceStmt.Run
DropSequenceRun(cat, name, ifExists, failAt) ==
    IF name = "" THEN RunResult(MissingIndexName, cat, <<>>)
    ELSE LET g == Faulty(failAt = 1, GetSequence(cat, name), cat)
         IN  IF g.err # ""
             THEN RunResult(IF IsNotFoundError(g.err) /\ ifExists THEN "" ELSE g.err,
                            cat, <<"GetSequence">>)
             ELSE IF cat.sequences[name] # ""
             THEN RunResult(OwnedSequenceError(name, cat.sequences[name]), cat,
                            <<"GetSequence">>)
             ELSE LET d == Faulty(failAt = 2, CatDropSequence(cat, name), cat)
                  IN  RunResult(IF IsNotFoundError(d.err) /\ ifExists THEN "" ELSE d.err,
                                d.cat, <<"GetSequence", "DropSequence">>)

\* a DROP statement, the catalog it found and what its Run returned
DropResult(kind, name, ifExists, failAt, found, r) ==
    [kind |-> kind, name |-> name, ifExists |-> ifExists, failAt |-> failAt,
     found |-> found, err |-> r.err, calls |-> r.calls]

NoDrop == [kind |-> "none", name |-> "", ifExists |-> FALSE, failAt |-> 0,
           found |-> Catalog({}, {}, <<>>), err |-> "", calls |-> <<>>]

\* the catalog calls that can fail: none, the first, the second or the third
FailAts == 0..3

\* a DROP statement has run: the transaction keeps what it wrote
Dropped(kind, name, ifExists, failAt, r) ==
    /\ catalog' = r.cat
    /\ dret' = DropResult(kind, name, ifExists, failAt, catalog, r)
    /\ UNCHANGED <<dmlVars, treeVars, compVars, dslVars, extVars>>

DropTable ==
    \E name \in TableNames \cup {""}, ifExists \in BOOLEAN, failAt \in FailAts :
        Dropped("table", name, ifExists, failAt, DropTableRun(catalog, name, ifExists, failAt))

DropIndex ==
    \E name \in IndexNames \cup {""}, ifExists \in BOOLEAN, failAt \in FailAts :
        Dropped("index", name, ifExists, failAt, DropIndexRun(catalog, name, ifExists, failAt))

DropSequence ==
    \E name \in FreeSequences \cup {RowidSequenceName(t) : t \in TableNames} \cup {""},
       ifExists \in BOOLEAN, failAt \in FailAts :
        Dropped("sequence", name, ifExists, failAt,
                DropSequenceRun(catalog, name, ifExists, failAt))

\* no DROP statement ran on the catalog of the DML statements' table
DropIdle ==
    /\ catalog = CatalogOf({}, {}, {})
    /\ dret = NoDrop

\* a transaction starts on one of the catalogs
DropNew ==
    /\ catalog \in {c \in Catalogs : \A i \in c.indexes : IndexOwner(i) \in c.tables}
    /\ dret = NoDrop

(***************************************************************************)
(* The SQL test files and TestSQL                                          *)
(***************************************************************************)

MaxTests == 3

\* a text is a sequence of words; the empty text has none
NoText == <<>>

\* the error messages running a test's SQL can raise
Messages == {<<"p">>, <<"p", "k">>, <<"k">>}

\* the texts a file gives after -- error: none, or a message
ErrorTexts == {NoText, <<"p">>}

\* the rows a query can return, as RequireStreamEqf compares them
RowTexts == {<<"r1">>, <<"r2">>}

\* a test declaration of a file: -- test: or -- only:, then the SQL, then
\* /* result: ... */ or -- error: ...
Decl(decl, expect, text) == [decl |-> decl, expect |-> expect, text |-> text]

Decls ==
    {Decl(d, "result", <<"r1">>) : d \in {"test", "only"}}
        \cup {Decl(d, "error", e) : d \in {"test", "only"}, e \in ErrorTexts}

\* the files of the model: one to MaxTests declarations
SqlFiles == UNION {[1..n -> Decls] : n \in 1..MaxTests}

\* what db.Query and the iteration of its rows give: an error or rows
Outcome(err, rows) == [err |-> err, rows |-> rows]

Outcomes ==
    {Outcome(m, NoText) : m \in Messages} \cup {Outcome(NoText, r) : r \in RowTexts}

\* the test parse makes of a declaration
Test(name, d) ==
    [Name |-> name, Line |-> name, Only |-> d.decl = "only",
     Fails |-> d.expect = "error",
     ErrorMatch |-> IF d.expect = "error" THEN d.text ELSE NoText,
     Result |-> IF d.expect = "result" THEN d.text ELSE NoText]

\* parse: the tests of a suite, one per declaration, in the order of the file
Parse(file) == [i \in 1..Len(file) |-> Test(i, file[i])]

\* the first test marked Only, 0 if there is none
FirstOnly(tests) ==
    IF \E i \in 1..Len(tests) : tests[i].Only
    THEN CHOOSE i \in 1..Len(tests) :
            tests[i].Only /\ \A j \in 1..(i - 1) : ~tests[j].Only
    ELSE 0

\* a selection that runs every test marked Only
TestsToRunEveryOnly(tests) ==
    IF FirstOnly(tests) # 0
    THEN LET marked == {i \in 1..Len(tests) : tests[i].Only}
             nth[n \in 1..Cardinality(marked)] ==
                 CHOOSE i \in marked : Cardinality({j \in marked : j < i}) = n - 1
         IN  [n \in 1..Cardinality(marked) |-> tests[nth[n]]]
    ELSE tests

\* the tests TestSQL runs for a suite
TestsToRun(tests) ==
    IF FirstOnly(tests) # 0 THEN <<tests[FirstOnly(tests)]>> ELSE tests

\* the assertions of a test hold for what its SQL gave
Passes(test, out) ==
    IF test.Fails
    THEN IF test.ErrorMatch # NoText
         THEN out.err # NoText /\ test.ErrorMatch = out.err
         ELSE out.err # NoText
    ELSE out.err = NoText /\ test.Result = out.rows

\* a test that was run and whether it passed
TestRun(name, pass) == [name |-> name, pass |-> pass]

\* TestSQL on the suite of a file: every test to run is run, also after a
\* test that failed
RunSuite(tests, outs) ==
    LET sel == TestsToRun(tests)
    IN  [i \in 1..Len(sel) |-> TestRun(sel[i].Name, Passes(sel[i], outs[sel[i].Name]))]

\* TestSQL parses a file and runs its suite
TestSQL ==
    /\ sqlFile = <<>>
    /\ \E file \in SqlFiles :
          \E outs \in [1..Len(file) -> Outcomes] :
              /\ sqlFile' = file
              /\ outcomes' = outs
              /\ ran' = RunSuite(Parse(file), outs)
    /\ UNCHANGED <<dmlVars, treeVars, compVars, dropVars, extVars>>

\* TestSQL goes on to the next file
NextFile ==
    /\ sqlFile # <<>>
    /\ sqlFile' = <<>>
    /\ outcomes' = <<>>
    /\ ran' = <<>>
    /\ UNCHANGED <<dmlVars, treeVars, compVars, dropVars, extVars>>

\* no file is being tested
DslIdle ==
    /\ sqlFile = <<>>
    /\ outcomes = <<>>
    /\ ran = <<>>

(***************************************************************************)
(* Matchers of package q                                                   *)
(***************************************************************************)

\* records of the table
MaxRecords == 3

\* the integers a record holds in the indexed field, and the ones compared with
FieldVals == -1..2

\* field.EncodeInt64, the 8 bytes scaled to one: the sign bit flipped
FieldEncodeInt64(v) == (v + 128) % 256

\* the absent rowid a cursor returns at its end
NilRowid == 0

RECURSIVE IndexFrom(_)
\* the entries of the index on the field, value and rowid, ordered by encoded
\* value and, for one value, by rowid
IndexFrom(rowids) ==
    IF rowids = {} THEN <<>>
    ELSE LET r == CHOOSE x \in rowids : \A y \in rowids :
                      \/ FieldEncodeInt64(records[x]) < FieldEncodeInt64(records[y])
                      \/ (records[x] = records[y] /\ x <= y)
         IN  <<[v |-> FieldEncodeInt64(records[r]), rowid |-> r]>> \o IndexFrom(rowids \ {r})

Index == IndexFrom(DOMAIN records)

\* Cursor.Seek: the position of the first entry whose value is not below data,
\* 0 when there is none
CursorSeek(ix, data) ==
    IF \E n \in 1..Len(ix) : ix[n].v >= data
    THEN CHOOSE n \in 1..Len(ix) :
             ix[n].v >= data /\ \A m \in 1..(n - 1) : ix[m].v < data
    ELSE 0

\* Cursor.Next: the position after, 0 at the end
CursorNext(ix, n) == IF n < Len(ix) THEN n + 1 ELSE 0

\* the rowid a cursor returns at a position
RowidAt(ix, n) == IF n = 0 THEN NilRowid ELSE ix[n].rowid

RECURSIVE GtIntLoop(_, _)
\* for rowid != nil { rowid, _ = c.Next(); rowids = append(rowids, rowid) }
GtIntLoop(ix, n) ==
    IF RowidAt(ix, n) = NilRowid THEN <<>>
    ELSE <<RowidAt(ix, CursorNext(ix, n))>> \o GtIntLoop(ix, CursorNext(ix, n))

\* GtInt(f, i).MatchIndex
GtIntMatchIndex(ix, i) == GtIntLoop(ix, CursorSeek(ix, FieldEncodeInt64(i)))

\* GtInt(f, i).Match of a record: compareInts with a > b
GtIntMatch(r, i) == r > i

NoMatch == [i |-> 0, rowids |-> <<>>, called |-> FALSE]

\* a record is inserted and the index on the field gets its entry
InsertRecord ==
    /\ ~qret.called
    /\ Len(records) < MaxRecords
    /\ \E v \in FieldVals : records' = Append(records, v)
    /\ UNCHANGED <<qret, pipe, vt, parsed>>
    /\ UNCHANGED <<dmlVars, treeVars, compVars, dropVars, dslVars>>

\* GtInt(f, i).MatchIndex is called with the index on f
MatchIndex ==
    /\ ~qret.called
    /\ \E i \in FieldVals :
          qret' = [i |-> i, rowids |-> GtIntMatchIndex(Index, i), called |-> TRUE]
    /\ UNCHANGED <<records, pipe, vt, parsed>>
    /\ UNCHANGED <<dmlVars, treeVars, compVars, dropVars, dslVars>>

\* the caller has taken the rowids
MatchDone ==
    /\ qret.called
    /\ qret' = NoMatch
    /\ UNCHANGED <<records, pipe, vt, parsed>>
    /\ UNCHANGED <<dmlVars, treeVars, compVars, dropVars, dslVars>>

(***************************************************************************)
(* Value types                                                             *)
(***************************************************************************)

\* type ValueType uint8
ValueTypes == 0..255

IntegerValue == 3

TimestampValue == 5

TextValue == 6

\* ValueType.IsTimestampCompatible
IsTimestampCompatible(t) == t = TimestampValue \/ t = TextValue

\* a caller asks whether a type is compatible with a timestamp
AskTimestampCompatible ==
    /\ \E t \in ValueTypes :
          vt' = <<[t |-> t, compatible |-> IsTimestampCompatible(t)]>>
    /\ UNCHANGED <<records, qret, pipe, parsed>>
    /\ UNCHANGED <<dmlVars, treeVars, compVars, dropVars, dslVars>>

(***************************************************************************)
(* Streams: Map and Filter                                                 *)
(***************************************************************************)

\* documents of a source
MaxDocs == 2

\* a document {"a": v} of the source, by its v; {"a": null} among them
Sources == UNION {[1..n -> NVals] : n \in 0..MaxDocs}

\* the expressions given to Map: {a: a + n} and {a: NULL}
MapExprs == [op : {"add"}, n : 0..1] \cup [op : {"null"}, n : {0}]

\* the expressions given to Filter: a > v, and a > NULL
FilterExprs == [op : {"gt"}, v : NVals]

\* the object value of a Map expression in the env of a row; NULL + n is NULL
EvalObject(e, row) ==
    IF e.op = "null" \/ row = Null THEN Null ELSE row + e.n

\* the value of a Filter expression in the env of a row: a comparison with
\* NULL is NULL
EvalCompare(e, row) ==
    IF row = Null \/ e.v = Null THEN "null"
    ELSE IF row > e.v THEN "true" ELSE "false"

\* a value is truthy; null is not
IsTruthy(v) == v = "true"

\* Map(e) on the row it is handed: the rows it hands down
MapOp(e, row) == <<EvalObject(e, row)>>

\* Filter(p) on the row it is handed: the rows it hands down
FilterOp(p, row) == IF IsTruthy(EvalCompare(p, row)) THEN <<row>> ELSE <<>>

\* the Filter stands before the Map
PipeFilterMap(e, p, row) ==
    IF FilterOp(p, row) = <<>> THEN <<>> ELSE MapOp(e, row)

\* s.Pipe(Map(e)).Pipe(Filter(p)) on one row of the source: each operator is
\* handed the env of its upstream
PipeMapFilter(e, p, row) == FilterOp(p, MapOp(e, row)[1])

RECURSIVE StreamIterate(_, _, _)
\* Stream.Iterate: the rows of the source pulled through the pipeline, in the
\* order of the source
StreamIterate(src, e, p) ==
    IF src = <<>> THEN <<>>
    ELSE PipeMapFilter(e, p, Head(src)) \o StreamIterate(Tail(src), e, p)

\* a stream over a source is piped through Map then Filter and iterated
TestStream ==
    /\ \E src \in Sources, e \in MapExprs, p \in FilterExprs :
          pipe' = <<[src |-> src, e |-> e, p |-> p, out |-> StreamIterate(src, e, p)]>>
    /\ UNCHANGED <<records, qret, vt, parsed>>
    /\ UNCHANGED <<dmlVars, treeVars, compVars, dropVars, dslVars>>

(***************************************************************************)
(* The suites of a SQL test file                                           *)
(***************************************************************************)

\* declaration lines of a file
MaxLines == 4

\* the names a file gives its suites
SuiteNames == {"s1", "s2"}

\* the name of the suite parse creates when a test comes before any suite
DefaultSuite == "default"

\* the lines of a file that declare: -- suite: name, or -- test: (named by its
\* line); the SQL and the expectations between them leave the suites alone
DeclLines == [kind : {"suite"}, name : SuiteNames] \cup [kind : {"test"}, name : {""}]

SuiteFiles == UNION {[1..n -> DeclLines] : n \in 1..MaxLines}

\* suite{Name: name}
NewSuite(name) == [Name |-> name, Tests |-> <<>>]

\* ts before the first line: no suite, suiteIndex -1
NewTestSuite == [Suites |-> <<>>, suiteIndex |-> -1]

\* the test is added to the suite being read only
AddTestToCurrent(ts, line) ==
    [ts EXCEPT !.Suites =
        [i \in 1..Len(@) |->
            IF i = ts.suiteIndex + 1 THEN [@[i] EXCEPT !.Tests = Append(@, line)] ELSE @[i]]]

\* for i := range ts.Suites { ts.Suites[i].Tests = append(ts.Suites[i].Tests, curTest) }
AddTest(ts, line) ==
    [ts EXCEPT !.Suites = [i \in 1..Len(@) |-> [@[i] EXCEPT !.Tests = Append(@, line)]]]

\* case -- suite:
ParseSuiteLine(ts, name) ==
    [Suites |-> Append(ts.Suites, NewSuite(name)), suiteIndex |-> ts.suiteIndex + 1]

\* case -- test: the default suite is created when there is none, then the
\* test is added
ParseTestLine(ts, line) ==
    IF ts.suiteIndex = -1
    THEN AddTest([Suites |-> Append(ts.Suites, NewSuite(DefaultSuite)),
                  suiteIndex |-> ts.suiteIndex + 1], line)
    ELSE AddTest(ts, line)

RECURSIVE ParseLines(_, _, _)
\* the loop of parse over the lines from line n on
ParseLines(file, n, ts) ==
    IF n > Len(file) THEN ts
    ELSE ParseLines(file, n + 1,
             IF file[n].kind = "suite" THEN ParseSuiteLine(ts, file[n].name)
             ELSE ParseTestLine(ts, n))

\* parse: the suites of a file
ParseSuites(file) == ParseLines(file, 1, NewTestSuite).Suites

\* a file is parsed
ParseFile ==
    /\ \E file \in SuiteFiles :
          parsed' = <<[file |-> file, Suites |-> ParseSuites(file)]>>
    /\ UNCHANGED <<records, qret, pipe, vt>>
    /\ UNCHANGED <<dmlVars, treeVars, compVars, dropVars, dslVars>>

QIdle ==
    /\ records = <<>>
    /\ qret = NoMatch

StreamIdle == pipe = <<>>

TypeIdle == vt = <<>>

SuitesIdle == parsed = <<>>

ExtIdle == QIdle /\ StreamIdle /\ TypeIdle /\ SuitesIdle

\* nothing runs beside the DML statements and the Tree
AuxIdle == CompIdle /\ DropIdle /\ DslIdle /\ ExtIdle

Init == DMLInit /\ TreeIdle /\ AuxIdle

Next ==
    \/ PrepareUpdate
    \/ PrepareDelete
    \/ PrepareInsert
    \/ RunOk
    \/ RunFail
    \/ Close

vars == <<dmlVars, treeVars, auxVars>>

Spec == Init /\ [][Next]_vars

TreeInit == DMLIdle /\ TreeNew /\ AuxIdle

TreeNext ==
    \/ Put
    \/ Get
    \/ Exists
    \/ Delete
    \/ Truncate
    \/ Iterate
    \/ DocumentIterate
    \/ DocumentGetByField
    \/ DocumentMarshalJSON
    \/ Return

SpecTree == TreeInit /\ [][TreeNext]_vars

QInit == DMLIdle /\ TreeIdle /\ AuxIdle

QNext ==
    \/ InsertRecord
    \/ MatchIndex
    \/ MatchDone

SpecQ == QInit /\ [][QNext]_vars

TypesInit == DMLIdle /\ TreeIdle /\ AuxIdle

TypesNext == AskTimestampCompatible

SpecTypes == TypesInit /\ [][TypesNext]_vars

StreamInit == DMLIdle /\ TreeIdle /\ AuxIdle

StreamNext == TestStream

SpecStream == StreamInit /\ [][StreamNext]_vars

SuitesInit == DMLIdle /\ TreeIdle /\ AuxIdle

SuitesNext == ParseFile

SpecSuites == SuitesInit /\ [][SuitesNext]_vars

SortInit == DMLIdle /\ SortNew /\ AuxIdle

SortNext ==
    \/ Buffer
    \/ Yield
    \/ Return

SpecSort == SortInit /\ [][SortNext]_vars

CompInit == DMLInit /\ TreeIdle /\ AuxIdle

CompNext ==
    \/ PrepareDeleteAst
    \/ PrepareInsertAst

SpecComp == CompInit /\ [][CompNext]_vars

DropInit == DMLIdle /\ TreeIdle /\ CompIdle /\ DropNew /\ DslIdle /\ ExtIdle

DslInit == DMLIdle /\ TreeIdle /\ AuxIdle

DslNext ==
    \/ TestSQL
    \/ NextFile

SpecDsl == DslInit /\ [][DslNext]_vars

DropNext ==
    \/ DropTable
    \/ DropIndex
    \/ DropSequence

SpecDrop == DropInit /\ [][DropNext]_vars

(***************************************************************************)
(* Properties of the DML statements                                        *)
(***************************************************************************)

\* the entries an index must hold for the rows of the table
EntriesOf(n, t) == {<<IKey(n, t[k]), k>> : k \in DOMAIN t}

InCatalog(n) == \E i \in 1..Len(indexNames) : indexNames[i] = n

\* every index of the table holds exactly the entries of the table's rows
Consistent(t, x) ==
    \A n \in AllIndexNames : x[n] = (IF InCatalog(n) THEN EntriesOf(n, t) ELSE {})

\* every row is stored under the key computed from its column values
KeysMatch(t) == \A k \in DOMAIN t : PK(t[k]) = k

RECURSIVE SetAll(_, _, _)
\* the row after the SET pairs were applied in statement order
SetAll(pairs, i, row) ==
    IF i > Len(pairs) THEN row
    ELSE SetAll(pairs, i + 1, [row EXCEPT ![pairs[i].path] = Eval(pairs[i].e, row)])

\* the keys of the rows the WHERE clause of the current statement selects
Selected(t) == {k \in DOMAIN t : cur.where.t = "none" \/ Truthy(cur.where, t[k])}

\* the key a selected row has after the SET pairs of the current statement
NewKey(t, k) == PK(SetAll(cur.set, 1, t[k]))

\* the statement of the given kind was run and is not closed yet
Ran(kind) == pc = "done" /\ cur.kind = kind /\ plan # <<>>

C2_PrimaryKeyUnique ==
    /\ KeysMatch(tbl)
    /\ (Ran("insert") /\ cur.onConflict = "none") =>
         /\ \A k \in DOMAIN pre.tbl : k \in DOMAIN tbl /\ tbl[k] = pre.tbl[k]
         /\ res.err = "" => \A i \in 1..Len(cur.rows) : PK(cur.rows[i]) \notin DOMAIN pre.tbl
         /\ PK(cur.rows[1]) \in DOMAIN pre.tbl =>
              /\ res.err = PKError
              /\ res.writes = 0
              /\ tbl = pre.tbl /\ idx = pre.idx

C2_Witness ==
    /\ pc = "done" /\ cur.kind = "insert" /\ cur.onConflict = "none"
    /\ res.err = PKError /\ Cardinality(DOMAIN tbl) >= 2

\* the UPDATE that was run moved some selected row onto a key another row held
MovesOntoHeldKey ==
    \E k \in Selected(pre.tbl) :
        NewKey(pre.tbl, k) # k /\ NewKey(pre.tbl, k) \in DOMAIN pre.tbl

\* the statement that was run is a one-row INSERT of a row with a key of freed
InsertsFreedKey ==
    Ran("insert") /\ Len(cur.rows) = 1 /\ PK(cur.rows[1]) \in pre.freed

\* C3 as stated: after a successful UPDATE that assigns a primary-key column
\* every row is stored under the key of its column values and the old key of
\* every updated row is gone; a following INSERT of a row with an old key
\* succeeds and adds that row to the table
C3_Original ==
    /\ (Ran("update") /\ PkModified(cur.set) /\ res.err = "") =>
         /\ KeysMatch(tbl)
         /\ \A k \in Selected(pre.tbl) : k \notin DOMAIN tbl
    /\ InsertsFreedKey =>
         /\ res.err = ""
         /\ tbl = TablePut(pre.tbl, PK(cur.rows[1]), cur.rows[1])

\* C3 as amended: after a successful UPDATE that assigns a primary-key column
\* every row is stored under the key of its column values, the old key of every
\* updated row whose key changed is gone unless another updated row moved onto
\* it, no row is lost and the rows not selected are as they were; a following
\* one-row INSERT of a row with an old key that is gone raises no PRIMARY KEY
\* constraint error: it succeeds and adds that row to the table, unless the row
\* violates a UNIQUE index
C3_MovedRowFreesOldKey ==
    /\ (Ran("update") /\ PkModified(cur.set) /\ res.err = "") =>
         /\ KeysMatch(tbl)
         /\ \A k \in Selected(pre.tbl) :
              (NewKey(pre.tbl, k) # k /\ \A j \in Selected(pre.tbl) : NewKey(pre.tbl, j) # k)
                  => k \notin DOMAIN tbl
         /\ Cardinality(DOMAIN tbl) = Cardinality(DOMAIN pre.tbl)
         /\ \A k \in DOMAIN pre.tbl \ Selected(pre.tbl) :
              k \in DOMAIN tbl /\ tbl[k] = pre.tbl[k]
    /\ InsertsFreedKey =>
         /\ res.err = "" \/ \E n \in AllIndexNames : res.err = UniqueError(n)
         /\ res.err = "" =>
              /\ tbl = TablePut(pre.tbl, PK(cur.rows[1]), cur.rows[1])
              /\ res.reused

C3_Witness ==
    /\ pc = "done" /\ cur.kind = "insert" /\ res.err = "" /\ res.reused
    /\ Cardinality(DOMAIN tbl) = 2 /\ pkPaths = <<"a", "b">>

\* C4 as stated: an UPDATE that sets the primary key of a row to a key another
\* row holds fails with the PRIMARY KEY constraint error
C4_Original ==
    (Ran("update") /\ PkModified(cur.set) /\ MovesOntoHeldKey) => res.err = PKError

\* the UPDATE that was run moved some selected row onto a key held by a row
\* that the statement itself does not move to another key
MovesOntoKeptKey ==
    \E k \in Selected(pre.tbl) :
        /\ NewKey(pre.tbl, k) # k
        /\ NewKey(pre.tbl, k) \in DOMAIN pre.tbl
        /\ NewKey(pre.tbl, k) \in Selected(pre.tbl)
             => NewKey(pre.tbl, NewKey(pre.tbl, k)) = NewKey(pre.tbl, k)

\* C4 as amended: an UPDATE that sets the primary key of a row to a key held by
\* another row which the statement does not itself move to another key fails;
\* the error is the PRIMARY KEY constraint error listing the primary-key paths,
\* unless a UNIQUE constraint error of an index stopped the statement first
C4_PrimaryKeyConflictFails ==
    (Ran("update") /\ PkModified(cur.set) /\ MovesOntoKeptKey) =>
        \/ res.err = PKError
        \/ \E n \in AllIndexNames : InCatalog(n) /\ res.err = UniqueError(n)

C4_Witness ==
    /\ pc = "done" /\ cur.kind = "update" /\ PkModified(cur.set)
    /\ res.err = "PRIMARY KEY constraint error: [a]"
    /\ Cardinality(DOMAIN tbl) = 2

\* C5: an UPDATE ... UNSET that names a primary-key path is never prepared to
\* a stream and never run: its Prepare ends the statement with "cannot unset
\* primary key path", no row is emitted or written, and the table and the
\* indexes are as the statement found them
C5_UnsetPrimaryKeyRejected ==
    (cur.kind = "update" /\ cur.set = <<>> /\ UnsetsPk(cur.unset)) =>
        /\ pc = "done"
        /\ res.err = "cannot unset primary key path"
        /\ plan = <<>>
        /\ res.emitted = 0 /\ res.writes = 0
        /\ tbl = pre.tbl /\ idx = pre.idx

C5_Witness ==
    /\ pc = "done" /\ cur.kind = "update" /\ cur.unset = <<"b">>
    /\ pkPaths = <<"a", "b">>
    /\ res.err = "cannot unset primary key path"
    /\ DOMAIN tbl # {}

\* C6: an UPDATE whose WHERE expression is true for no row ends without error
\* and leaves the table and every index as they were; no write operator runs
C6_UpdateWhereFalseNoChange ==
    (Ran("update") /\ cur.where.t # "none"
        /\ \A k \in DOMAIN pre.tbl : ~Truthy(cur.where, pre.tbl[k])) =>
        /\ res.err = ""
        /\ res.writes = 0
        /\ tbl = pre.tbl /\ idx = pre.idx

C6_Witness ==
    /\ pc = "done" /\ cur.kind = "update" /\ cur.where.t # "none"
    /\ res.err = "" /\ res.writes = 0 /\ res.emitted = 2
    /\ Len(indexNames) = 2

\* the INSERT that was run, run again in the state it left: no error, no
\* change, and every key of its VALUES is in the table
SecondRunSame ==
    /\ RunStream(plan, cur, "snapshot", tbl, idx).err = ""
    /\ RunStream(plan, cur, "snapshot", tbl, idx).tbl = tbl
    /\ RunStream(plan, cur, "snapshot", tbl, idx).idx = idx
    /\ \A i \in 1..Len(cur.rows) : PK(cur.rows[i]) \in DOMAIN tbl

FirstRowInvalid == \E j \in 1..Len(pkPaths) : cur.rows[1][pkPaths[j]] = Null

\* the first VALUES row has the index key of an entry a unique index held
FirstRowDuplicates(n) ==
    InCatalog(n) /\ GetIndexInfo(n).unique
        /\ \E e \in pre.idx[n] : e[1] = IKey(n, cur.rows[1])

\* C8: under OnConflict(nil) a PRIMARY KEY error of TableInsert is never
\* reported: the row is dropped, the existing row stays and the stream goes on
\* to the next row; the NOT NULL error of TableValidate and the UNIQUE error of
\* IndexValidate are reported and no later row is emitted
C8_OnConflictSwallowsOnlyWriter ==
    (Ran("insert") /\ cur.onConflict = "nothing") =>
        /\ res.err # PKError
        /\ FirstRowInvalid =>
             /\ res.err = NotNullError
             /\ res.emitted = 1 /\ res.writes = 0 /\ res.swallowed = 0
        /\ (~FirstRowInvalid /\ PK(cur.rows[1]) \in DOMAIN pre.tbl) =>
             /\ tbl[PK(cur.rows[1])] = pre.tbl[PK(cur.rows[1])]
             /\ res.swallowed >= 1
             /\ res.emitted = Len(cur.rows)
        /\ \A n \in AllIndexNames :
             (~FirstRowInvalid /\ PK(cur.rows[1]) \notin DOMAIN pre.tbl
                /\ FirstRowDuplicates(n)) =>
                  /\ res.err = UniqueError(n)
                  /\ res.emitted = 1 /\ res.swallowed = 0

C8_Witness ==
    /\ pc = "done" /\ cur.kind = "insert" /\ cur.onConflict = "nothing"
    /\ res.err = "UNIQUE constraint error: [b]"
    /\ res.swallowed = 1 /\ res.emitted = 2

(***************************************************************************)
(* Properties of the Tree                                                  *)
(***************************************************************************)

\* the leading values of a key, as many as the bound has
Leading(x, bound) == SubSeq(x, 1, Len(bound))

\* the semantic predicate of a range: Min <= x <= Max on the leading values
\* the bound gives, < when the range is exclusive, an unset bound open
InRange(x, min, max, exclusive) ==
    /\ min # Nil =>
         IF exclusive THEN KeyLess(min, Leading(x, min))
         ELSE ~KeyLess(Leading(x, min), min)
    /\ max # Nil =>
         IF exclusive THEN KeyLess(Leading(x, max), max)
         ELSE ~KeyLess(max, Leading(x, max))

\* the keys of the tree
StoredKeys == {x \in TreeKeys : buildKey(EncodeKey(x)) \in DOMAIN store}

\* the keys fn was called with
Visited == {tret.calls[i].key : i \in 1..Len(tret.calls)}

\* C9: after an IterateOnRange that fn did not stop, for every range and direction, the keys fn was
\* called with are exactly the stored keys of the tree for which the range's
\* semantic predicate holds (Min <= x <= Max, strict when exclusive, an unset
\* bound open); with Min = Max = k, not exclusive, they are exactly the stored
\* keys equal to k on the values k gives
C9_IterateOnRangeVisitsRange ==
    (tret.op = "IterateOnRange" /\ tret.err = "") =>
        /\ Visited = {EncodeKey(x) :
                        x \in {y \in StoredKeys :
                                 InRange(y, tret.min, tret.max, tret.exclusive)}}
        /\ (tret.min # Nil /\ tret.min = tret.max /\ ~tret.exclusive) =>
             Visited = {EncodeKey(x) :
                          x \in {y \in StoredKeys : Leading(y, tret.min) = tret.min}}

C9_Witness ==
    /\ tret.op = "IterateOnRange" /\ ~transient
    /\ tret.min = <<1>> /\ tret.max = <<2, MaxInt64>> /\ tret.exclusive
    /\ StoredKeys = {<<1, MaxInt64>>, <<2, -1>>}
    /\ Visited = {EncodeKey(<<2, -1>>)}

\* C10: the keys one IterateOnRange passes to fn are strictly ascending, in
\* bytes and as typed keys, when reverse is false and strictly descending when
\* reverse is true, so no key is passed twice
C10_IterateOnRangeMonotonic ==
    tret.op = "IterateOnRange" =>
        \A i \in 1..Len(tret.calls), j \in 1..Len(tret.calls) :
            i < j =>
                LET lo == IF tret.reverse THEN tret.calls[j].key ELSE tret.calls[i].key
                    hi == IF tret.reverse THEN tret.calls[i].key ELSE tret.calls[j].key
                IN  /\ BytesLess(lo, hi)
                    /\ \A x \in TreeKeys, y \in TreeKeys :
                         (EncodeKey(x) = lo /\ EncodeKey(y) = hi) => KeyLess(x, y)

C10_Witness ==
    /\ tret.op = "IterateOnRange" /\ tret.reverse
    /\ Len(tret.calls) = 2
    /\ tret.calls[1].key = EncodeKey(<<1, MaxInt64>>)
    /\ tret.calls[2].key = EncodeKey(<<1, -1>>)

\* a sequence from its last element to its first
Reversed(seq) == [i \in 1..Len(seq) |-> seq[Len(seq) + 1 - i]]

\* the range of the last IterateOnRange, as it was handed to the tree
CalledRange == Range(EncodeKey(tret.min), EncodeKey(tret.max), tret.exclusive)

\* C11: the calls of fn one IterateOnRange makes, fn stopping none, are, call for call, those
\* the same range makes on the same tree in the other direction, taken from
\* the last to the first: both directions visit the same keys, in opposite
\* orders
C11_ReverseVisitsSameKeys ==
    (tret.op = "IterateOnRange" /\ tret.err = "") =>
        LET other == IterateOnRange(CalledRange, ~tret.reverse, 0)
        IN  /\ tret.calls = Reversed(other)
            /\ Visited = {other[i].key : i \in 1..Len(other)}

C11_Witness ==
    /\ tret.op = "IterateOnRange" /\ tret.reverse /\ ~tret.exclusive
    /\ tret.min = <<1>> /\ tret.max = <<2>>
    /\ Len(tret.calls) = 2
    /\ tret.calls[1].key = EncodeKey(<<2, -1>>)
    /\ tret.calls[2].key = EncodeKey(<<1, MaxInt64>>)

\* C12: fn returning no error, a range that is not exclusive and whose Max (or Min) has the leading
\* value alone leaves the second value open on both ends: fn is called with
\* every stored key whose leading value equals the bound's, whatever its
\* second value, as far as the other bound admits it, and with no stored key
\* whose leading value is beyond the bound, in both directions
C12_PartialBoundOpenOnBothEnds ==
    (tret.op = "IterateOnRange" /\ tret.err = "" /\ ~tret.exclusive) =>
        /\ Len(tret.max) = 1 =>
             \A x \in StoredKeys :
                /\ x[1] > tret.max[1] => EncodeKey(x) \notin Visited
                /\ (x[1] = tret.max[1] /\ (tret.min = Nil \/ tret.min = tret.max)) =>
                     EncodeKey(x) \in Visited
        /\ Len(tret.min) = 1 =>
             \A x \in StoredKeys :
                /\ x[1] < tret.min[1] => EncodeKey(x) \notin Visited
                /\ (x[1] = tret.min[1] /\ (tret.max = Nil \/ tret.max = tret.min)) =>
                     EncodeKey(x) \in Visited

C12_Witness ==
    /\ tret.op = "IterateOnRange" /\ ~tret.exclusive /\ tret.reverse
    /\ tret.min = <<1>> /\ tret.max = <<1>>
    /\ StoredKeys = {<<1, MaxInt64>>, <<2, -1>>}
    /\ Visited = {EncodeKey(<<1, MaxInt64>>)}

\* C13: fn returning no error, an exclusive range excludes both of its bounds, a bound of the
\* leading value alone included: fn is called with no stored key whose leading
\* values equal Min or equal Max, and an exclusive Min of the leading value
\* alone admits every stored key with a greater leading value that Max admits
C13_ExclusiveExcludesBothBounds ==
    (tret.op = "IterateOnRange" /\ tret.err = "" /\ tret.exclusive) =>
        \A x \in StoredKeys :
            /\ (tret.min # Nil /\ Leading(x, tret.min) = tret.min) =>
                 EncodeKey(x) \notin Visited
            /\ (tret.max # Nil /\ Leading(x, tret.max) = tret.max) =>
                 EncodeKey(x) \notin Visited
            /\ (Len(tret.min) = 1 /\ x[1] > tret.min[1] /\ tret.max = Nil) =>
                 EncodeKey(x) \in Visited

C13_Witness ==
    /\ tret.op = "IterateOnRange" /\ tret.exclusive /\ ~tret.reverse
    /\ tret.min = <<1>> /\ tret.max = Nil
    /\ StoredKeys = {<<1, -1>>, <<2, -1>>}
    /\ Visited = {EncodeKey(<<2, -1>>)}

\* the bytes Put stores for a document, the byte 0 for a nil one
StoredDoc(d) == IF d # 0 THEN CodecEncode(d) ELSE <<0>>

\* C14: Put never fails, whether the key exists or not, and changes the
\* entry of no other key; after any sequence of calls the tree holds one entry
\* for each key put and not deleted since, and no other; Get of such a key
\* returns the document of the key's most recent Put
C14_PutReplaces ==
    /\ Cardinality(TreeEntries) = Cardinality(DOMAIN puts)
    /\ \A x \in DOMAIN puts :
          /\ buildKey(EncodeKey(x)) \in TreeEntries
          /\ store[buildKey(EncodeKey(x))] = StoredDoc(puts[x])
    /\ tret.op = "Put" =>
          /\ tret.err = ""
          /\ DOMAIN store = DOMAIN tpre \cup {buildKey(EncodeKey(tret.key))}
          /\ \A j \in DOMAIN tpre :
                j # buildKey(EncodeKey(tret.key)) => store[j] = tpre[j]
    /\ (tret.op = "Get" /\ ~transient /\ tret.key \in DOMAIN puts) =>
          /\ tret.err = ""
          /\ tret.doc = StoredDoc(puts[tret.key])

C14_Witness ==
    /\ tret.op = "Put" /\ ~transient
    /\ buildKey(EncodeKey(tret.key)) \in DOMAIN tpre
    /\ tpre[buildKey(EncodeKey(tret.key))] # tret.doc
    /\ Cardinality(TreeEntries) = 2

\* the stored key of the last call's key
CalledKey == buildKey(EncodeKey(tret.key))

\* the stored keys outside the namespace of the tree
ForeignKeys(st) == {j \in DOMAIN st : ~HasPrefix(j, BuildKey(NamespaceID, Nil))}

\* C15: on a tree over a namespace, Get fails, with KeyNotFound, exactly when
\* the key is not in the tree and succeeds otherwise; Exists returns true
\* exactly for the keys Get succeeds on; neither changes the store
C15_GetExistsAgree ==
    ~transient =>
        /\ tret.op = "Get" =>
              /\ store = tpre
              /\ tret.err = (IF tret.key \in DOMAIN puts THEN "" ELSE KeyNotFound)
        /\ tret.op = "Exists" =>
              /\ store = tpre
              /\ tret.err = ""
              /\ tret.doc = (IF tret.key \in DOMAIN puts THEN <<1>> ELSE <<0>>)

C15_Witness ==
    /\ tret.op = "Get" /\ ~transient
    /\ tret.err = KeyNotFound
    /\ DOMAIN puts = {<<1, -1>>}
    /\ tret.key = <<1, MaxInt64>>

\* C16: on a tree over a namespace, Delete of a key that is not in the tree
\* fails with KeyNotFound and leaves the store as it was; Delete of a key
\* that is in the tree succeeds and removes the entry of that key and no
\* other, so that the key is absent and a Delete of it that follows fails
C16_DeleteRemovesOneEntry ==
    (tret.op = "Delete" /\ ~transient) =>
        IF CalledKey \in DOMAIN tpre
        THEN /\ tret.err = ""
             /\ DOMAIN store = DOMAIN tpre \ {CalledKey}
             /\ \A j \in DOMAIN store : store[j] = tpre[j]
             /\ tret.key \notin DOMAIN puts
        ELSE /\ tret.err = KeyNotFound
             /\ store = tpre

C16_Witness ==
    /\ tret.op = "Delete" /\ ~transient /\ tret.err = ""
    /\ tret.key = <<1, -1>>
    /\ StoredKeys = {<<1, MaxInt64>>}
    /\ Cardinality(DOMAIN tpre) = Cardinality(DOMAIN store) + 1

\* C17: after Truncate of a tree over a namespace no key of the namespace is
\* stored: an IterateOnRange over the full range calls fn for nothing, in
\* either direction, no key can be got, and the entries of the other
\* namespaces of the store are those Truncate found
C17_TruncateEmptiesNamespace ==
    (tret.op = "Truncate" /\ ~transient) =>
        /\ tret.err = ""
        /\ TreeEntries = {}
        /\ StoredKeys = {}
        /\ DOMAIN puts = {}
        /\ \A reverse \in BOOLEAN : IterateOnRange(Range(Nil, Nil, FALSE), reverse, 0) = <<>>
        /\ ForeignKeys(store) = ForeignKeys(tpre)
        /\ \A j \in ForeignKeys(tpre) : store[j] = tpre[j]

C17_Witness ==
    /\ tret.op = "Truncate" /\ ~transient
    /\ Cardinality(DOMAIN tpre \ ForeignKeys(tpre)) = 2
    /\ ForeignKeys(store) # {}
    /\ TreeEntries = {}

\* C18: IterateOnRange of a tree over a namespace, for every range, an unset
\* Min or Max included, and in either direction, walks from no less than the
\* namespace prefix to no more than the namespace's UpperBound, and calls fn
\* only with keys stored in that namespace, never with a key of another one
C18_IterateStaysInNamespace ==
    (tret.op = "IterateOnRange" /\ ~transient) =>
        /\ ~BytesLess(StartOf(CalledRange), BuildKey(NamespaceID, Nil))
        /\ ~BytesLess(UpperBound(NamespaceID), EndOf(CalledRange))
        /\ \A i \in 1..Len(tret.calls) :
              /\ BuildKey(NamespaceID, tret.calls[i].key) \in DOMAIN store
              /\ tret.calls[i].key \notin ForeignKeys(store)
              /\ \E x \in TreeKeys : tret.calls[i].key = EncodeKey(x)

C18_Witness ==
    /\ tret.op = "IterateOnRange" /\ ~transient
    /\ tret.min = Nil /\ tret.max = Nil /\ ~tret.reverse
    /\ Cardinality(ForeignKeys(store)) = 2
    /\ Len(tret.calls) = 2

\* C19: Get, Exists, Delete and Truncate of a transient tree panic: they
\* return nothing and leave the store as it was, whether the key is stored or
\* not; Put and IterateOnRange of a transient tree do not panic
C19_TransientSupportsPutAndIterate ==
    transient =>
        /\ tret.op \in {"Get", "Exists", "Delete", "Truncate"} =>
              /\ tret.err = Panic
              /\ tret.doc = <<>>
              /\ store = tpre
        /\ tret.op \in {"Put", "IterateOnRange"} => tret.err # Panic

C19_Witness ==
    /\ transient /\ tret.op = "Delete" /\ tret.err = Panic
    /\ CalledKey \in DOMAIN store
    /\ Cardinality(DOMAIN store) = 2

(***************************************************************************)
(* Properties of the stream of UPDATE                                      *)
(***************************************************************************)

\* the positions of an operator in the stream of the statement
Positions(op) == {i \in 1..Len(plan) : plan[i].op = op}

\* the positions of the operators that write the table
TableWrites == Positions("TableDelete") \cup Positions("TableInsert")
                   \cup Positions("TableReplace")

\* C20: the stream of an UPDATE holds, in this order: SeqScan of the table;
\* Filter if and only if there is a WHERE clause; one PathSet per SET pair, or
\* without SET pairs one PathUnset per UNSET name, in statement order;
\* TableValidate; one IndexDelete per index; TableDelete then TableInsert if
\* some SET path is a primary-key path, TableReplace otherwise; per index, in
\* the order of ListIndexes, IndexInsert, with IndexValidate right before it
\* if and only if the index is unique; and Discard last. Every IndexDelete is
\* before the table write and every IndexInsert after it
C20_UpdateStreamOrder ==
    (cur.kind = "update" /\ plan # <<>>) =>
        LET f == IF cur.where.t # "none" THEN 1 ELSE 0
            n == IF cur.set # <<>> THEN Len(cur.set) ELSE Len(cur.unset)
            m == Len(indexNames)
            moved == \E i \in 1..Len(cur.set) : \E j \in 1..Len(pkPaths) :
                        cur.set[i].path = pkPaths[j]
            w == IF moved THEN 2 ELSE 1
            v == 1 + f + n + 1
            t == v + m
            u == Cardinality({i \in 1..m : GetIndexInfo(indexNames[i]).unique})
            ins(i) == CHOOSE p \in 1..Len(plan) :
                         plan[p] = Op("IndexInsert", indexNames[i], NoExpr)
        IN  /\ Len(plan) = t + w + m + u + 1
            /\ plan[1] = Op("SeqScan", "test", NoExpr)
            /\ Positions("Filter") = (IF f = 1 THEN {2} ELSE {})
            /\ f = 1 => plan[2].e = cur.where
            /\ \A i \in 1..n :
                  plan[1 + f + i] = (IF cur.set # <<>>
                                     THEN Op("PathSet", cur.set[i].path, cur.set[i].e)
                                     ELSE Op("PathUnset", cur.unset[i], NoExpr))
            /\ plan[v] = Op("TableValidate", "test", NoExpr)
            /\ \A i \in 1..m : plan[v + i] = Op("IndexDelete", indexNames[i], NoExpr)
            /\ IF moved
               THEN /\ plan[t + 1] = Op("TableDelete", "test", NoExpr)
                    /\ plan[t + 2] = Op("TableInsert", "test", NoExpr)
               ELSE plan[t + 1] = Op("TableReplace", "test", NoExpr)
            /\ TableWrites = (t + 1)..(t + w)
            /\ \A i \in 1..m :
                  /\ \E p \in 1..Len(plan) : plan[p] = Op("IndexInsert", indexNames[i], NoExpr)
                  /\ ins(i) > t + w
                  /\ plan[ins(i) - 1] = Op("IndexValidate", indexNames[i], NoExpr)
                        <=> GetIndexInfo(indexNames[i]).unique
                  /\ \A j \in 1..m : i < j => ins(i) < ins(j)
            /\ Cardinality(Positions("IndexInsert")) = m
            /\ Cardinality(Positions("IndexValidate")) = u
            /\ plan[Len(plan)] = Op("Discard", "", NoExpr)
            /\ \A d \in Positions("IndexDelete"), x \in TableWrites,
                  i \in Positions("IndexInsert") \cup Positions("IndexValidate") :
                    d < x /\ x < i

C20_Witness ==
    /\ pc = "done" /\ cur.kind = "update" /\ res.err = "" /\ res.writes > 0
    /\ cur.where.t # "none" /\ Len(cur.set) = 2 /\ Len(indexNames) = 2
    /\ Positions("TableDelete") # {} /\ Positions("IndexValidate") # {}
    /\ Len(plan) = 13

(***************************************************************************)
(* Properties of the streams of DELETE and INSERT                          *)
(***************************************************************************)

\* the positions of an operator in the stream Prepare made
StreamPositions(op) == {i \in 1..Len(stream) : stream[i].op = op}

\* 1 if the clause is present, 0 if not
Present(e) == IF e.t # "none" THEN 1 ELSE 0

\* C21: the stream of a DELETE is SeqScan(T), Filter if and only if WHERE is
\* present, TempTreeSort if and only if ORDER BY is, Skip if and only if
\* OFFSET is, Take if and only if LIMIT is, and TableDelete(T), in this order
\* and with no other operator: Skip is before Take and both after TempTreeSort
C21_DeleteStreamOrder ==
    ast.kind = "delete" =>
        LET f == Present(ast.whereExpr)
            o == Present(ast.orderBy)
            k == Present(ast.offsetExpr)
            l == Present(ast.limitExpr)
        IN  /\ Len(stream) = 2 + f + o + k + l
            /\ stream[1] = Op("SeqScan", "test", NoExpr)
            /\ StreamPositions("Filter") = (IF f = 1 THEN {2} ELSE {})
            /\ StreamPositions("TempTreeSort") = (IF o = 1 THEN {2 + f} ELSE {})
            /\ StreamPositions("Skip") = (IF k = 1 THEN {2 + f + o} ELSE {})
            /\ StreamPositions("Take") = (IF l = 1 THEN {2 + f + o + k} ELSE {})
            /\ f = 1 => stream[2].e = ast.whereExpr
            /\ o = 1 => stream[2 + f].e = ast.orderBy
            /\ k = 1 => stream[2 + f + o].e = ast.offsetExpr
            /\ l = 1 => stream[2 + f + o + k].e = ast.limitExpr
            /\ stream[Len(stream)] = Op("TableDelete", "test", NoExpr)
            /\ \A x \in StreamPositions("TempTreeSort"),
                  y \in StreamPositions("Skip") \cup StreamPositions("Take") : x < y
            /\ \A x \in StreamPositions("Skip"), y \in StreamPositions("Take") : x < y

C21_Witness ==
    /\ ast.kind = "delete"
    /\ ast.whereExpr = EqExpr("a", 1) /\ ast.orderBy = Col("a")
    /\ ast.offsetExpr = Lit(2) /\ ast.limitExpr = Lit(1)
    /\ Len(stream) = 6
    /\ stream[4] = Op("Skip", "", Lit(2)) /\ stream[5] = Op("Take", "", Lit(1))

\* C22: the stream of an INSERT starts with its row source (Emit, or the scan
\* of the SELECT with its Project), has PathsRename next if and only if target
\* columns are named and the source is a SELECT, then TableValidate(T), then
\* OnConflict if and only if ON CONFLICT is given (nil for DO NOTHING,
\* TableReplace(T) for DO REPLACE), then TableInsert(T): OnConflict is right
\* after TableValidate and right before TableInsert
C22_InsertStreamOrder ==
    ast.kind = "insert" =>
        LET src == IF ast.selectStmt = <<>> THEN 1
                   ELSE IF ast.selectStmt = <<"*">> THEN 1 ELSE 2
            r == IF ast.selectStmt # <<>> /\ ast.fields # <<>> THEN 1 ELSE 0
            c == IF ast.onConflict # "none" THEN 1 ELSE 0
            v == src + r + 1
        IN  /\ stream[1].op = (IF ast.selectStmt = <<>> THEN "Emit" ELSE "SeqScan")
            /\ src = 2 => stream[2] = Op("Project", ExprsString(ast.selectStmt), NoExpr)
            /\ StreamPositions("PathsRename") = (IF r = 1 THEN {src + 1} ELSE {})
            /\ r = 1 => stream[src + 1].name = ExprsString(ast.fields)
            /\ StreamPositions("TableValidate") = {v}
            /\ StreamPositions("OnConflict") = (IF c = 1 THEN {v + 1} ELSE {})
            /\ c = 1 => stream[v + 1].name =
                            (IF ast.onConflict = "nothing" THEN "nil" ELSE "TableReplace")
            /\ StreamPositions("TableInsert") = {v + c + 1}
            /\ stream[v].name = "test" /\ stream[v + c + 1].name = "test"

C22_Witness ==
    /\ ast.kind = "insert"
    /\ ast.selectStmt = <<"c", "d">> /\ ast.fields = <<"a", "b">>
    /\ ast.onConflict = "replace"
    /\ stream[3] = Op("PathsRename", "a, b", NoExpr)
    /\ stream[4] = Op("TableValidate", "test", NoExpr)
    /\ stream[5] = Op("OnConflict", "TableReplace", NoExpr)
    /\ stream[6] = Op("TableInsert", "test", NoExpr)

\* C23 as stated: the stream of an INSERT ends with Project of the returning
\* expressions if RETURNING is present, whatever the expressions are, and
\* with Discard otherwise
C23_Original ==
    ast.kind = "insert" =>
        stream[Len(stream)] =
            (IF ast.returning # <<>>
             THEN Op("Project", ExprsString(ast.returning), NoExpr)
             ELSE Op("Discard", "", NoExpr))

\* C23: the stream of an INSERT ends with Discard if no RETURNING is present
\* and with Project of the returning expressions if a RETURNING other than
\* a lone * is; with RETURNING * it has no Discard and ends with the insert
\* operators, TableInsert or the last index's IndexInsert
C23_InsertStreamEnding ==
    ast.kind = "insert" =>
        LET last == stream[Len(stream)]
        IN  /\ ast.returning = <<>> =>
                  /\ last = Op("Discard", "", NoExpr)
                  /\ StreamPositions("Discard") = {Len(stream)}
            /\ ast.returning \notin {<<>>, <<"*">>} =>
                  /\ last = Op("Project", ExprsString(ast.returning), NoExpr)
                  /\ StreamPositions("Discard") = {}
            /\ ast.returning = <<"*">> =>
                  /\ last.op = (IF indexNames = <<>> THEN "TableInsert" ELSE "IndexInsert")
                  /\ StreamPositions("Discard") = {}

C23_Witness ==
    /\ ast.kind = "insert"
    /\ ast.selectStmt = <<"c", "d">> /\ ast.onConflict = "nothing"
    /\ ast.returning = <<"*", "a">>
    /\ stream[Len(stream)] = Op("Project", "*, a", NoExpr)
    /\ indexNames = <<>>

(***************************************************************************)
(* Properties of the DROP statements                                       *)
(***************************************************************************)

\* the object the last DROP statement names was in the catalog it found
Existed ==
    IF dret.kind = "table" THEN dret.name \in dret.found.tables
    ELSE IF dret.kind = "index" THEN dret.name \in dret.found.indexes
    ELSE dret.name \in DOMAIN dret.found.sequences

\* a catalog call of the last DROP statement failed for a reason of its own
Faulted == dret.failAt \in 1..Len(dret.calls)

\* C24: a DROP TABLE, DROP INDEX or DROP SEQUENCE that names an object the
\* catalog does not hold returns no error with IF EXISTS and the NotFound
\* error without, and leaves the catalog as it found it; when a catalog call
\* fails with an error other than NotFound, Run returns that error, with IF
\* EXISTS as without
C24_DropIfExists ==
    (dret.kind # "none" /\ dret.name # "") =>
        /\ (~Existed /\ ~Faulted) =>
              /\ dret.err = (IF dret.ifExists THEN "" ELSE NotFound)
              /\ catalog = dret.found
        /\ Faulted => dret.err = OtherError

C24_Witness ==
    /\ dret.kind = "sequence" /\ dret.name = "s1" /\ dret.ifExists
    /\ ~Existed /\ ~Faulted
    /\ dret.err = ""
    /\ catalog.tables = TableNames

\* C25: a DROP SEQUENCE of a sequence a table owns returns an error, with
\* and without IF EXISTS, and leaves the catalog as it found it; in every
\* state each table without primary key that is in the catalog has its rowid
\* sequence, owned by it
C25_OwnedSequenceStays ==
    /\ (dret.kind = "sequence" /\ dret.name # "" /\ Existed
            /\ dret.found.sequences[dret.name] # "") =>
          /\ dret.err # ""
          /\ ~Faulted =>
                dret.err = OwnedSequenceError(dret.name, dret.found.sequences[dret.name])
          /\ catalog = dret.found
    /\ \A t \in catalog.tables :
          ~PrimaryKey(t) =>
              /\ RowidSequenceName(t) \in DOMAIN catalog.sequences
              /\ catalog.sequences[RowidSequenceName(t)] = t

C25_Witness ==
    /\ dret.kind = "sequence" /\ dret.name = "t1_seq" /\ dret.ifExists
    /\ dret.err = OwnedSequenceError("t1_seq", "t1")
    /\ "t1" \in catalog.tables
    /\ "t1_seq" \in DOMAIN catalog.sequences

\* the errors Run returns for a statement without a name
MissingNameErrors == {MissingTableName, MissingIndexName}

\* C26: a DROP TABLE, DROP INDEX or DROP SEQUENCE with an empty name returns
\* a missing-name error, makes no call to the catalog and leaves the catalog
\* as it found it
C26_MissingNameRejected ==
    (dret.kind # "none" /\ dret.name = "") =>
        /\ dret.err \in MissingNameErrors
        /\ dret.calls = <<>>
        /\ catalog = dret.found

C26_Witness ==
    /\ dret.kind = "table" /\ dret.name = "" /\ dret.ifExists
    /\ dret.err = MissingTableName
    /\ dret.calls = <<>>
    /\ catalog.tables # {}

(***************************************************************************)
(* Properties of the SQL test files                                        *)
(***************************************************************************)

\* a text has the words of another in it, one after the other
Contains(sub, text) ==
    \E i \in 1..(Len(text) - Len(sub) + 1) : SubSeq(text, i, i + Len(sub) - 1) = sub

\* the declaration and the outcome of the i-th test that ran
RanDecl(i) == sqlFile[ran[i].name]

RanOutcome(i) == outcomes[ran[i].name]

\* C27 as stated: a test that expects -- error: with a text passes when its
\* SQL raises an error whose message contains the text, a test that expects
\* -- error: without a text passes when its SQL raises any error, and both
\* fail when no error is raised
C27_ErrorExpectation ==
    \A i \in 1..Len(ran) :
        RanDecl(i).expect = "error" =>
            /\ (RanDecl(i).text # NoText /\ RanOutcome(i).err # NoText
                    /\ Contains(RanDecl(i).text, RanOutcome(i).err)) => ran[i].pass
            /\ (RanDecl(i).text = NoText /\ RanOutcome(i).err # NoText) => ran[i].pass
            /\ RanOutcome(i).err = NoText => ~ran[i].pass

\* the declarations of the file marked -- only:
Marked == {i \in 1..Len(sqlFile) : sqlFile[i].decl = "only"}

\* C28: when a declaration of the suite is marked -- only:, TestSQL runs one
\* test, the first one so marked, and no other; when none is marked it runs
\* every test once, in the order of the file
C28_OnlyRunsFirstMarked ==
    sqlFile # <<>> =>
        IF Marked # {}
        THEN /\ Len(ran) = 1
             /\ ran[1].name \in Marked
             /\ \A j \in Marked : ran[1].name <= j
        ELSE /\ Len(ran) = Len(sqlFile)
             /\ \A i \in 1..Len(ran) : ran[i].name = i

C28_Witness ==
    /\ Len(sqlFile) = 3
    /\ Marked = {2, 3}
    /\ Len(ran) = 1 /\ ran[1].name = 2 /\ ~ran[1].pass

(***************************************************************************)
(* Order of the key encoding                                               *)
(***************************************************************************)

\* the keys of the tree and the bounds of the range of the last call
StateKeys == StoredKeys \cup ({tret.min, tret.max} \ {Nil})

\* the values of a set of keys
ValuesOf(ks) == UNION {{k[i] : i \in 1..Len(k)} : k \in ks}

\* the number of keys of the tree that are less than a key
Rank(x) == Cardinality({y \in StoredKeys : KeyLess(y, x)})

C30_DocumentDecodesLazilyOnce ==
    document # NoDocument =>
        /\ tret.op = "Get" /\ tret.err = ""
        /\ document.encoded = store[CalledKey]
        /\ document.encoded = StoredDoc(puts[tret.key])
        /\ document.reads = <<>> => (document.decodes = 0 /\ document.d = 0)
        /\ document.reads # <<>> => document.decodes = 1
        /\ \A i \in 1..Len(document.reads) :
              /\ document.reads[i].d = puts[tret.key]
              /\ document.reads[i].d \in Docs

C30_Witness ==
    /\ document # NoDocument
    /\ Len(document.reads) = 2
    /\ document.reads[1].op = "GetByField" /\ document.reads[2].op = "MarshalJSON"
    /\ document.decodes = 1
    /\ document.reads[2].d = 1 /\ puts[tret.key] = 1

(***************************************************************************)
(* The callback of IterateOnRange                                          *)
(***************************************************************************)

\* the calls the last IterateOnRange makes when fn returns no error
FullCalls == IterateOnRange(CalledRange, tret.reverse, 0)

\* the typed key of a key passed to fn
TypedKey(k) == CHOOSE x \in TreeKeys : EncodeKey(x) = k

\* C31: when fn returns an error for a key, IterateOnRange returns that error
\* and that call of fn is its last: the calls are the first ones of the
\* iteration fn does not stop, and no key after the failing one is passed
C31_ErrorStopsIteration ==
    tret.op = "IterateOnRange" =>
        /\ \A i \in 1..Len(tret.calls) :
              tret.calls[i].err # "" =>
                  /\ i = Len(tret.calls)
                  /\ tret.err = tret.calls[i].err
        /\ tret.err # "" => (tret.calls # <<>> /\ tret.calls[Len(tret.calls)].err = tret.err)
        /\ tret.err = "" => Len(tret.calls) = Len(FullCalls)
        /\ Len(tret.calls) <= Len(FullCalls)
        /\ \A i \in 1..Len(tret.calls) : tret.calls[i].key = FullCalls[i].key

C31_Witness ==
    /\ tret.op = "IterateOnRange" /\ tret.err = FnError
    /\ Len(tret.calls) = 1 /\ Len(FullCalls) = 2
    /\ tret.calls[1].err = FnError

\* C36: at every call of fn the document holds the value stored at the key of
\* that call, and when that value is an encoded object the document decodes to
\* the object last put at that key, never to the object of an earlier call
C36_IterationDocumentFresh ==
    tret.op = "IterateOnRange" =>
        \A i \in 1..Len(tret.calls) :
            LET c == tret.calls[i]
            IN  /\ c.doc = store[buildKey(c.key)]
                /\ c.doc = StoredDoc(puts[TypedKey(c.key)])
                /\ c.seen = puts[TypedKey(c.key)]

C36_Witness ==
    /\ tret.op = "IterateOnRange" /\ Len(tret.calls) = 2
    /\ tret.calls[1].seen = 1 /\ tret.calls[2].seen = 2
    /\ tret.calls[1].key # tret.calls[2].key

(***************************************************************************)
(* DROP TABLE and the rowid sequence                                       *)
(***************************************************************************)

\* C33: a DROP TABLE that returns no error for a table of the catalog removes
\* the table; when the table has no primary key it also drops the table's
\* rowid sequence, and no other sequence; when the table has a primary key it
\* drops no sequence
C33_DropTableDropsRowidSequence ==
    (dret.kind = "table" /\ dret.err = "" /\ Existed) =>
        /\ dret.name \notin catalog.tables
        /\ catalog.tables = dret.found.tables \ {dret.name}
        /\ IF ~PrimaryKey(dret.name)
           THEN /\ RowidSequenceName(dret.name) \in DOMAIN dret.found.sequences
                /\ DOMAIN catalog.sequences =
                      DOMAIN dret.found.sequences \ {RowidSequenceName(dret.name)}
                /\ dret.calls = <<"GetTable", "DropTable", "DropSequence">>
           ELSE /\ catalog.sequences = dret.found.sequences
                /\ dret.calls = <<"GetTable", "DropTable">>

C33_Witness ==
    /\ dret.kind = "table" /\ dret.name = "t1" /\ dret.err = "" /\ ~dret.ifExists
    /\ "t1" \in dret.found.tables /\ "t1_seq" \in DOMAIN dret.found.sequences
    /\ "t1" \notin catalog.tables /\ "t1_seq" \notin DOMAIN catalog.sequences
    /\ "s1" \in DOMAIN catalog.sequences

(***************************************************************************)
(* UPDATE that assigns the primary key its own value                       *)
(***************************************************************************)

\* the UPDATE that was run names a primary-key path in its SET list and gives
\* every row it selects the key the row has
KeepsKeys ==
    /\ Ran("update")
    /\ \E i \in 1..Len(cur.set) : \E j \in 1..Len(pkPaths) : cur.set[i].path = pkPaths[j]
    /\ \A k \in Selected(pre.tbl) : NewKey(pre.tbl, k) = k

\* C34: an UPDATE whose SET list names a primary-key path takes the
\* delete-then-insert path whatever the values: when every selected row is
\* assigned the key it has (SET a = a, or SET a = 1 WHERE a = 1) the stream
\* holds TableDelete, then TableInsert, and no TableReplace, the statement
\* raises no PRIMARY KEY constraint error, and the table holds the keys it held
C34_SameKeyUpdateKeepsKeys ==
    KeepsKeys =>
        /\ Positions("TableReplace") = {}
        /\ \E i \in Positions("TableDelete") : Positions("TableInsert") = {i + 1}
        /\ res.err # PKError
        /\ DOMAIN tbl = DOMAIN pre.tbl
        /\ res.err = "" => res.writes >= 2 * Cardinality(Selected(pre.tbl))

C34_Witness ==
    /\ KeepsKeys /\ res.err = ""
    /\ cur.set = <<SetPair("a", Col("a"))>> /\ cur.where = NoExpr
    /\ pkPaths = <<"a">>
    /\ Cardinality(DOMAIN tbl) = 2 /\ res.writes >= 4

(***************************************************************************)
(* The whole range of a transient tree                                     *)
(***************************************************************************)

\* C37 as stated: an IterateOnRange over the whole range of a transient tree
\* that fn does not stop passes every key that was put into the tree, each
\* once, in sorted order (reversed when reverse is set), whatever the first
\* byte of the key
C37_TransientFullRangeVisitsAll ==
    (transient /\ tret.op = "IterateOnRange" /\ tret.err = ""
        /\ tret.min = Nil /\ tret.max = Nil) =>
        /\ {tret.calls[i].key : i \in 1..Len(tret.calls)} = DOMAIN puts
        /\ Len(tret.calls) = Cardinality(DOMAIN puts)
        /\ \A i \in 1..Len(tret.calls), j \in 1..Len(tret.calls) :
              i < j => IF tret.reverse
                       THEN BytesLess(tret.calls[j].key, tret.calls[i].key)
                       ELSE BytesLess(tret.calls[i].key, tret.calls[j].key)

(***************************************************************************)
(* GtInt                                                                   *)
(***************************************************************************)

RECURSIVE Matching(_, _)
\* the rowids of the entries idx[n..] whose record GtInt(f, i).Match selects
Matching(n, i) ==
    IF n > Len(Index) THEN <<>>
    ELSE (IF GtIntMatch(records[Index[n].rowid], i) THEN <<Index[n].rowid>> ELSE <<>>)
         \o Matching(n + 1, i)

\* C38 as stated: GtInt(f, i).MatchIndex returns the rowids of the entries of
\* the index whose value is greater than i, each once, in index order, none of
\* them nil: the records GtInt(f, i).Match selects
C38_GtIntMatchIndex ==
    qret.called =>
        /\ qret.rowids = Matching(1, qret.i)
        /\ \A n \in 1..Len(qret.rowids) : qret.rowids[n] # NilRowid

(***************************************************************************)
(* Value types                                                             *)
(***************************************************************************)

\* C40 as stated: IsTimestampCompatible returns true when the type is
\* timestamp, integer or text, and false for every other type
C40_TimestampCompatibleTypes ==
    \A n \in 1..Len(vt) :
        vt[n].compatible <=> vt[n].t \in {TimestampValue, IntegerValue, TextValue}

(***************************************************************************)
(* Map then Filter                                                         *)
(***************************************************************************)

\* the positions of the source whose mapped row the predicate holds on
Passing(r) ==
    {n \in 1..Len(r.src) : EvalCompare(r.p, EvalObject(r.e, r.src[n])) = "true"}

\* the j-th position of a set of positions, in ascending order
Nth(S, j) == CHOOSE n \in S : Cardinality({m \in S : m <= n}) = j

\* C32: source.Pipe(Map(e)).Pipe(Filter(p)) emits, in source order, exactly
\* the mapped rows on which p is truthy; a null result of p drops the row, and
\* p is evaluated on the row Map produced, not on the source row
C32_MapThenFilter ==
    \A i \in 1..Len(pipe) :
        /\ Len(pipe[i].out) = Cardinality(Passing(pipe[i]))
        /\ \A j \in 1..Len(pipe[i].out) :
              pipe[i].out[j] =
                  EvalObject(pipe[i].e, pipe[i].src[Nth(Passing(pipe[i]), j)])

\* the stream of TestStream: {a: 1}, {a: 2} through {a: a + 1} and a > 2
\* emits the one row {a: 3}, which the source row {a: 2} would not pass
C32_Witness ==
    /\ pipe # <<>>
    /\ pipe[1].src = <<1, 2>>
    /\ pipe[1].e = [op |-> "add", n |-> 1]
    /\ pipe[1].p = [op |-> "gt", v |-> 2]
    /\ pipe[1].out = <<3>>

(***************************************************************************)
(* Suites                                                                  *)
(***************************************************************************)

\* the lines of a file that declare a test, a suite
TestLines(f) == {n \in 1..Len(f) : f[n].kind = "test"}

SuiteLines(f) == {n \in 1..Len(f) : f[n].kind = "suite"}

\* the tests of a set of lines, in the order of the file
InOrder(S) == [j \in 1..Cardinality(S) |-> Nth(S, j)]

\* a test stands before every suite of the file, or the file has no suite
TestFirst(f) ==
    \E n \in TestLines(f) : \A m \in SuiteLines(f) : n < m

\* C39 as stated: after parse every test of the file belongs to every suite
\* declared in the file, wherever the suite line stands, and a file that
\* declares no suite has the single suite default, which holds all tests
C39_EveryTestInEverySuite ==
    \A i \in 1..Len(parsed) :
        LET f == parsed[i].file
            S == parsed[i].Suites
        IN  IF SuiteLines(f) = {}
            THEN S = <<[Name |-> DefaultSuite, Tests |-> InOrder(TestLines(f))]>>
            ELSE /\ Len(S) = Cardinality(SuiteLines(f))
                 /\ \A j \in 1..Len(S) :
                       /\ S[j].Name = f[Nth(SuiteLines(f), j)].name
                       /\ S[j].Tests = InOrder(TestLines(f))

\* C39 amended: after parse every test of the file belongs to every suite
\* declared before it in the file and to no suite declared after it; when no
\* suite is declared before the first test, a suite default is created at
\* that test, stands first and holds all tests
C39_TestInSuitesDeclaredBefore ==
    \A i \in 1..Len(parsed) :
        LET f == parsed[i].file
            S == parsed[i].Suites
            d == IF TestFirst(f) THEN 1 ELSE 0
        IN  /\ Len(S) = d + Cardinality(SuiteLines(f))
            /\ TestFirst(f) =>
                  S[1] = [Name |-> DefaultSuite, Tests |-> InOrder(TestLines(f))]
            /\ \A j \in 1..Cardinality(SuiteLines(f)) :
                  LET m == Nth(SuiteLines(f), j)
                  IN  /\ S[d + j].Name = f[m].name
                      /\ S[d + j].Tests = InOrder({n \in TestLines(f) : n > m})

\* a file with a test, then a suite, then a test: the suite holds the second
\* test only, the suite default both
C39_Witness ==
    /\ parsed # <<>>
    /\ Len(parsed[1].file) = 3
    /\ TestLines(parsed[1].file) = {1, 3}
    /\ Len(parsed[1].Suites) = 2
    /\ parsed[1].Suites[1] = [Name |-> DefaultSuite, Tests |-> <<1, 3>>]
    /\ parsed[1].Suites[2].Tests = <<3>>

====
